---- MODULE Spec2Model ----
(***************************************************************************)
(* A model of the routing simulator: Packet (packet.py), Link (link.py),   *)
(* Router (router.py), Client (client.py) and Network (network.py).        *)
(*                                                                         *)
(* Threads are modelled with a program counter per thread (pc) and a stack *)
(* of return labels (stack), so that one translation of a method serves    *)
(* every caller.  Objects that are shared by reference (packets and their  *)
(* route lists, links) live in heaps indexed by identity.                  *)
(***************************************************************************)
EXTENDS Integers, Sequences, FiniteSets, TLC

\* ------------------------------------------------------------------ bounds
MaxTime == 1        \* the clock is observed over 0..MaxTime
MaxPkts == 3        \* Packet objects allocated in one run
MaxSets == 1        \* change_latency calls per direction of a link
MaxCmds == 3        \* link-change commands the environment enqueues to one router
MaxEvents == 2      \* events in a change script

\* ------------------------------------------------------- the configuration
\* The scenario C1 - R - C2 of the specification (one router, two clients).
Routers == {"R"}
Clients == {"C1", "C2"}
ClientOrder == <<"C1", "C2">>          \* iteration order of the clients dict
ThreadOrder == <<"R", "C1", "C2">>     \* Network.threads: routers, then clients
Threads == {"main", "changes"} \cup Routers \cup Clients

\* correct_routes of the configuration, keyed by (src, dst)
Keys == {<<"C1", "C2">>, <<"C2", "C1">>}
NoRoute == << >>
GoodRoute(k) == <<k[1], "R", k[2]>>

\* ------------------------------------------------------------------- state
VARIABLES
    now,            \* time elapsed since the run started, in ticks
    pc,             \* pc[t]: the statement thread t executes next
    stack,          \* stack[t]: return labels of the calls t is inside
    ur,             \* ur[t]: arguments and locals of update_route in thread t
    routes,         \* Network.routes: (src,dst) -> (route, is_good, time_ms)
    routes_lock,    \* Network.routes_lock: "free" or the thread holding it
    stamped,        \* history: greatest time_ms stamped per key since the last reset
    report,         \* the verdict of the last get_route_string ("", "SUCCESS", "FAILURE")
    keep_running,   \* keep_running of every router and client
    joinIdx,        \* join_all: index into Network.threads
    interrupted,    \* whether handle_interrupt has been entered
    pkt,            \* heap of Packet objects: pkt[p] = (kind, srcAddr, dstAddr, content, route)
    lst,            \* heap of list objects: lst[i] is the route list with identity i
    link,           \* heap of Link objects: link[l] = (e1, e2, l12, l21, q12, q21)
    helpers,        \* the running _send_helper threads
    held,           \* harness: the packets the senders keep a reference to
    sendLog,        \* history: the sends Link.send accepted, in order
    recvLog,        \* history: the packets Link.recv returned, in order
    endLog,         \* history: the _send_helper threads that ended, and how
    rlinks,         \* Router.links: rlinks[r] maps port -> link
    link_changes,   \* link_changes mailbox of every router and client
    rcur,           \* rcur[r]: locals of Router.run (the change being applied, ports to poll)
    enq,            \* history: every command put in a router's mailbox, in order
    deq,            \* history: how many commands a router has dequeued
    applied,        \* history: how many commands a router dequeued in the current iteration
    clink,          \* Client.link (0 is None)
    sending,        \* Client.sending
    last_time,      \* Client.last_time
    ctime,          \* time_ms of Client.run
    sw,             \* sw[t]: locals of send_traceroutes in thread t (client, index)
    lastSent,       \* history: last_send has been called on the client
    sweeps,         \* history: send_traceroutes calls on the client since last_send
    mainIdx,        \* loop index of the main thread (run, add_links, final_routes)
    changes,        \* Network.changes: the scripted events not yet taken
    links,          \* Network.links while a script runs: (addr1, addr2) -> (p1, p2, link)
    hc,             \* locals of handle_changes (start_time, the event taken)
    conf,           \* a configuration file and the Network constructed from it
    tried           \* history: the last call of Router.send, or of Link.recv by a
                    \* non-endpoint, and what became of it

ctl == <<pc, stack>>
rts == <<routes, routes_lock, stamped, report>>
shut == <<keep_running, joinIdx, interrupted>>
heap == <<pkt, lst>>
lnk == <<link, helpers, held, sendLog, recvLog, endLog>>
rtr == <<rlinks, link_changes, rcur, enq, deq, applied>>
cli == <<clink, sending, last_time, ctime, sw, lastSent, sweeps>>
ext == <<changes, links, hc, conf, tried>>
vars == <<now, ctl, ur, rts, shut, heap, lnk, rtr, cli, mainIdx, ext>>

\* what the operations on the route map leave alone
others == <<heap, lnk, rtr, cli, mainIdx, ext>>

\* ----------------------------------------------------------------- helpers
\* A function extended or overwritten at one point (dict item assignment).
Put(f, k, v) == [x \in DOMAIN f \cup {k} |-> IF x = k THEN v ELSE f[x]]

EmptyMap == [x \in {} |-> 0]

\* call: continue at `entry`, and at `after` once the callee returns
Call(t, entry, after) ==
    /\ pc' = [pc EXCEPT ![t] = entry]
    /\ stack' = [stack EXCEPT ![t] = <<after>> \o @]

\* return to the label on top of the stack
Return(t) ==
    /\ pc' = [pc EXCEPT ![t] = Head(stack[t])]
    /\ stack' = [stack EXCEPT ![t] = Tail(@)]

Goto(t, label) ==
    /\ pc' = [pc EXCEPT ![t] = label]
    /\ UNCHANGED stack

NoFrame == [src |-> "", dst |-> "", route |-> NoRoute, time_ms |-> 0, is_good |-> FALSE]

\* time.time() counts from the epoch: a reading is far above any send_rate
Epoch == 100

\* int(round(time.time() * 1000)), in ticks
TimeMs == Epoch + now

\* ------------------------------------------------------------------- clock
\* Time passes.
Tick ==
    /\ now < MaxTime
    /\ now' = now + 1
    /\ UNCHANGED <<others, ctl, ur, rts, shut>>

\* time.time() is the system's wall clock: it can be set back between two reads.
ClockSetBack ==
    /\ now > 0
    /\ now' = now - 1
    /\ UNCHANGED <<others, ctl, ur, rts, shut>>

\* --------------------------------------------------- threading.Lock (routes)
\* routes_lock.acquire(): blocks until the lock is free, then takes it.
LockAcquire(t) ==
    /\ routes_lock = "free"
    /\ routes_lock' = t

\* routes_lock.release()
LockRelease(t) ==
    routes_lock' = "free"

\* ---------------------------------------------------- Network.update_route
\* route in self.correct_routes[(src, dst)]  (a defaultdict: no entry, no route)
IsGood(src, dst, route) ==
    /\ <<src, dst>> \in Keys
    /\ route = GoodRoute(<<src, dst>>)

\* a comparison that lets an equal stamp replace the stored entry
SupersedesOrEqual(time_ms, current_time) == time_ms >= current_time

\* if time_ms > current_time
Supersedes(time_ms, current_time) == time_ms > current_time

\* self.routes_lock.acquire()
UpdateRouteAcquire(t) ==
    /\ pc[t] = "ur_acquire"
    /\ LockAcquire(t)
    /\ Goto(t, "ur_stamp")
    /\ UNCHANGED <<others, now, ur, routes, stamped, report, shut>>

\* time_ms = int(round(time.time() * 1000)); is_good = route in correct_routes[...]
UpdateRouteStamp(t) ==
    /\ pc[t] = "ur_stamp"
    /\ ur' = [ur EXCEPT ![t].time_ms = TimeMs,
                        ![t].is_good = IsGood(ur[t].src, ur[t].dst, ur[t].route)]
    /\ LET k == <<ur[t].src, ur[t].dst>>
       IN stamped' = IF k \in DOMAIN stamped /\ stamped[k] >= TimeMs
                     THEN stamped ELSE Put(stamped, k, TimeMs)
    /\ Goto(t, "ur_try")
    /\ UNCHANGED <<others, now, routes, routes_lock, report, shut>>

\* try: read the stored stamp and store if younger; except KeyError: store
UpdateRouteTry(t) ==
    /\ pc[t] = "ur_try"
    /\ LET k == <<ur[t].src, ur[t].dst>>
           e == [route |-> ur[t].route, is_good |-> ur[t].is_good,
                 time_ms |-> ur[t].time_ms]
       IN routes' = IF k \in DOMAIN routes
                    THEN IF Supersedes(ur[t].time_ms, routes[k].time_ms)
                         THEN Put(routes, k, e) ELSE routes
                    ELSE Put(routes, k, e)
    /\ Goto(t, "ur_release")
    /\ UNCHANGED <<others, now, ur, routes_lock, stamped, report, shut>>

\* finally: self.routes_lock.release(); return
UpdateRouteRelease(t) ==
    /\ pc[t] = "ur_release"
    /\ LockRelease(t)
    /\ ur' = [ur EXCEPT ![t] = NoFrame]
    /\ Return(t)
    /\ UNCHANGED <<others, now, routes, stamped, report, shut>>

\* a verdict that only looks at all_correcct
VerdictOfEntriesOnly(rs) ==
    IF \A k \in DOMAIN rs : rs[k].is_good THEN "SUCCESS" ELSE "FAILURE"

\* ------------------------------------------------- Network.get_route_string
\* all_correcct and len(self.routes) > 0
Verdict(rs) ==
    IF (\A k \in DOMAIN rs : rs[k].is_good) /\ Cardinality(DOMAIN rs) > 0
    THEN "SUCCESS" ELSE "FAILURE"

\* self.routes_lock.acquire()
GetRouteStringAcquire(t) ==
    /\ pc[t] = "gs_acquire"
    /\ LockAcquire(t)
    /\ Goto(t, "gs_build")
    /\ UNCHANGED <<others, now, ur, routes, stamped, report, shut>>

\* the loop over self.routes, the sort and the verdict line
GetRouteStringBuild(t) ==
    /\ pc[t] = "gs_build"
    /\ report' = Verdict(routes)
    /\ Goto(t, "gs_release")
    /\ UNCHANGED <<others, now, ur, routes, routes_lock, stamped, shut>>

\* self.routes_lock.release(); return route_string
GetRouteStringRelease(t) ==
    /\ pc[t] = "gs_release"
    /\ LockRelease(t)
    /\ Return(t)
    /\ UNCHANGED <<others, now, ur, routes, stamped, report, shut>>

\* ------------------------------------------------- Network.get_route_pickle
\* self.routes_lock.acquire()
GetRoutePickleAcquire(t) ==
    /\ pc[t] = "gp_acquire"
    /\ LockAcquire(t)
    /\ Goto(t, "gp_dumps")
    /\ UNCHANGED <<others, now, ur, routes, stamped, report, shut>>

\* route_pickle = pickle.dumps(self.routes): a read of the map
GetRoutePickleDumps(t) ==
    /\ pc[t] = "gp_dumps"
    /\ Goto(t, "gp_release")
    /\ UNCHANGED <<others, now, ur, rts, shut>>

\* self.routes_lock.release(); return route_pickle
GetRoutePickleRelease(t) ==
    /\ pc[t] = "gp_release"
    /\ LockRelease(t)
    /\ Return(t)
    /\ UNCHANGED <<others, now, ur, routes, stamped, report, shut>>

\* ----------------------------------------------------- Network.reset_routes
\* self.routes_lock.acquire()
ResetRoutesAcquire(t) ==
    /\ pc[t] = "rs_acquire"
    /\ LockAcquire(t)
    /\ Goto(t, "rs_assign")
    /\ UNCHANGED <<others, now, ur, routes, stamped, report, shut>>

\* self.routes = {}
ResetRoutesAssign(t) ==
    /\ pc[t] = "rs_assign"
    /\ routes' = EmptyMap
    /\ stamped' = EmptyMap
    /\ Goto(t, "rs_release")
    /\ UNCHANGED <<others, now, ur, routes_lock, report, shut>>

\* self.routes_lock.release()
ResetRoutesRelease(t) ==
    /\ pc[t] = "rs_release"
    /\ LockRelease(t)
    /\ Return(t)
    /\ UNCHANGED <<others, now, ur, routes, stamped, report, shut>>

\* ------------------------------- Network.handle_interrupt, Network.join_all
\* a thread that has left its run method, by return or by an uncaught exception
Ended == {"dead", "raised"}

\* SIGINT: the handler registered by run is entered in the main thread, on top
\* of whatever the main thread was executing.
HandleInterrupt ==
    /\ ~interrupted
    /\ pc["main"] \notin {"exited", "raised", "done"}
    /\ interrupted' = TRUE
    /\ pc' = [pc EXCEPT !["main"] = "join_changes"]
    /\ stack' = [stack EXCEPT !["main"] = <<"int_quit", pc["main"]>> \o @]
    /\ UNCHANGED <<others, now, ur, rts, keep_running, joinIdx>>

\* if self.changes: self.handle_changes_thread.join()
JoinAllChanges ==
    /\ pc["main"] = "join_changes"
    /\ pc["changes"] \in Ended
    /\ joinIdx' = 1
    /\ Goto("main", "join_set")
    /\ UNCHANGED <<others, now, ur, rts, keep_running, interrupted>>

\* RouterThread.join / ClientThread.join: self.router.keep_running = False
JoinAllStop ==
    /\ pc["main"] = "join_set"
    /\ IF joinIdx > Len(ThreadOrder)
       THEN Return("main") /\ UNCHANGED keep_running
       ELSE /\ keep_running' = [keep_running EXCEPT ![ThreadOrder[joinIdx]] = FALSE]
            /\ Goto("main", "join_wait")
    /\ UNCHANGED <<others, now, ur, rts, joinIdx, interrupted>>

\* super().join(timeout): wait until the thread has ended
JoinAllWait ==
    /\ pc["main"] = "join_wait"
    /\ pc[ThreadOrder[joinIdx]] \in Ended
    /\ joinIdx' = joinIdx + 1
    /\ Goto("main", "join_set")
    /\ UNCHANGED <<others, now, ur, rts, keep_running, interrupted>>

\* print(""); quit(): SystemExit unwinds every frame of the main thread
HandleInterruptQuit ==
    /\ pc["main"] = "int_quit"
    /\ pc' = [pc EXCEPT !["main"] = "exited"]
    /\ stack' = [stack EXCEPT !["main"] = << >>]
    /\ UNCHANGED <<others, now, ur, rts, shut>>

\* ------------------------------------------------------------------ Packet
\* The names an instance of Packet answers to: the attributes __init__ sets,
\* the methods and the class attributes.
PacketAttrs == {"kind", "srcAddr", "dstAddr", "content", "route",
                "TRACEROUTE", "ROUTING", "copy", "isTraceroute", "isRouting",
                "getContent", "addToRoute", "getRoute", "animateSend"}

\* Attribute lookup on a Packet: a name outside PacketAttrs raises AttributeError.
HasAttr(name) == name \in PacketAttrs

\* Packet contents: None, strings, and values that are not strings.
NoContent == "None"
IsStr(c) == c \in {"str:", "str:x", "str:y"}
Truthy(c) == c \notin {"None", "str:", "int:0", "list:[]"}

\* the route of packet p, as a sequence of addresses
RouteOf(p) == lst[pkt[p].route]

\* the value of packet p
PktVal(p) == [kind |-> pkt[p].kind, srcAddr |-> pkt[p].srcAddr,
              dstAddr |-> pkt[p].dstAddr, content |-> pkt[p].content,
              route |-> RouteOf(p)]

\* Packet(kind, srcAddr, dstAddr, content): the fields, and self.route = [srcAddr]
PacketInit(kind, srcAddr, dstAddr, content) ==
    [kind |-> kind, srcAddr |-> srcAddr, dstAddr |-> dstAddr,
     content |-> content, route |-> <<srcAddr>>]

\* The heaps after allocating a packet of value v whose route is the list `ref`
\* (a fresh list holding v.route is allocated beside it).
Alloc(v, ref) ==
    [pkt |-> Append(pkt, [v EXCEPT !.route = ref]),
     lst |-> Append(lst, v.route)]

Fresh == Len(lst) + 1

\* a copy whose route is the original's list object itself
AliasedRouteRef(p) == pkt[p].route

\* p.route = list(self.route): the copy's route is a new list
CopyRouteRef(p) == Fresh

\* Packet.copy: content deep-copied (a string or None), route copied
PacketCopy(p) == Alloc(PktVal(p), CopyRouteRef(p))

\* -------------------------------------------------------------------- Link
LatencyMultiplier == 1      \* latency_multiplier, in ticks of 100 ms

\* Link(e1, e2, l12, l21, latency)
LinkInit(e1, e2, l12, l21) ==
    [e1 |-> e1, e2 |-> e2, l12 |-> l12 * LatencyMultiplier,
     l21 |-> l21 * LatencyMultiplier, q12 |-> << >>, q21 |-> << >>,
     set12 |-> 0, set21 |-> 0]      \* history: change_latency calls per direction

Peer(l, src) == IF src = link[l].e1 THEN link[l].e2 ELSE link[l].e1
Latency(l, src) == IF src = link[l].e1 THEN link[l].l12 ELSE link[l].l21
LatencySets(l, src) == IF src = link[l].e1 THEN link[l].set12 ELSE link[l].set21

\* if packet.content: assert isinstance(packet.content, str)
ContentOk(p) == Truthy(pkt[p].content) => IsStr(pkt[p].content)

\* Link.send past the assertion: p = packet.copy(), and a thread is started to
\* run _send_helper(p, src).
LinkSend(l, p, src) ==
    /\ pkt' = PacketCopy(p).pkt
    /\ lst' = PacketCopy(p).lst
    /\ helpers' = helpers \cup {[p |-> Len(pkt) + 1, l |-> l, src |-> src,
                                 pc |-> "start", wake |-> 0]}
    /\ sendLog' = Append(sendLog,
                         [p |-> Len(pkt) + 1, orig |-> p, l |-> l, src |-> src,
                          t |-> now, lat |-> Latency(l, src), set |-> LatencySets(l, src),
                          snap |-> PktVal(p)])

\* One step of a _send_helper thread h. Started: append the peer to the route
\* (packet.add_to_route), animate (packet.animate_send), read the latency and
\* sleep. Woken: put the packet in the queue of its direction. A src that is
\* neither endpoint falls through both branches.
SendHelper(h) ==
    /\ h \in helpers
    /\ h.pc = "sleep" => now >= h.wake
    /\ LET l == h.l
           end(how) == /\ helpers' = helpers \ {h}
                       /\ endLog' = endLog \cup {[p |-> h.p, how |-> how]}
       IN IF h.pc = "start"
          THEN IF h.src \notin {link[l].e1, link[l].e2}
               THEN end("done") /\ UNCHANGED <<lst, link>>
               ELSE IF ~HasAttr("add_to_route")
               THEN end("raised") /\ UNCHANGED <<lst, link>>
               ELSE /\ lst' = [lst EXCEPT ![pkt[h.p].route] = Append(@, Peer(l, h.src))]
                    /\ UNCHANGED link
                    /\ IF ~HasAttr("animate_send")
                       THEN end("raised")
                       ELSE /\ helpers' = (helpers \ {h}) \cup
                                  {[h EXCEPT !.pc = "sleep", !.wake = now + Latency(l, h.src)]}
                            /\ UNCHANGED endLog
          ELSE /\ link' = IF h.src = link[l].e1
                          THEN [link EXCEPT ![l].q12 = Append(@, h.p)]
                          ELSE [link EXCEPT ![l].q21 = Append(@, h.p)]
               /\ end("done")
               /\ UNCHANGED lst
    /\ UNCHANGED <<now, ctl, ur, rts, ext, shut, pkt, held, sendLog, recvLog, rtr, cli, mainIdx>>

\* Link.recv(dst): the packet returned (0 is None)
Recv(l, dst) ==
    IF dst = link[l].e1
    THEN IF link[l].q21 # << >> THEN Head(link[l].q21) ELSE 0
    ELSE IF dst = link[l].e2
    THEN IF link[l].q12 # << >> THEN Head(link[l].q12) ELSE 0
    ELSE 0

\* Link.recv(dst): the links after the call
AfterRecv(l, dst) ==
    IF Recv(l, dst) = 0 THEN link
    ELSE IF dst = link[l].e1 THEN [link EXCEPT ![l].q21 = Tail(@)]
    ELSE [link EXCEPT ![l].q12 = Tail(@)]

\* Link.change_latency(src, c): the links after the call
AfterChangeLatency(l, src, c) ==
    IF src = link[l].e1
    THEN [link EXCEPT ![l].l12 = c * LatencyMultiplier, ![l].set12 = @ + 1]
    ELSE IF src = link[l].e2
    THEN [link EXCEPT ![l].l21 = c * LatencyMultiplier, ![l].set21 = @ + 1]
    ELSE link

\* ------------------------------------------------------- initial conditions
InitRts ==
    /\ ur = [t \in Threads |-> NoFrame]
    /\ routes = EmptyMap
    /\ routes_lock = "free"
    /\ stamped = EmptyMap
    /\ report = ""

InitShut ==
    /\ keep_running = [x \in Routers \cup Clients |-> TRUE]
    /\ joinIdx = 1
    /\ interrupted = FALSE

InitHeap ==
    /\ pkt = << >>
    /\ lst = << >>

InitLnk ==
    /\ helpers = {}
    /\ held = EmptyMap
    /\ sendLog = << >>
    /\ recvLog = << >>
    /\ endLog = {}

NoCmd == [op |-> "none", port |-> 0, endpoint |-> "", link |-> 0, cost |-> 0]

NoLocals == [cmd |-> NoCmd, todo |-> {}, port |-> 0, pkt |-> 0]

InitRtr ==
    /\ rlinks = [r \in Routers |-> EmptyMap]
    /\ link_changes = [x \in Routers \cup Clients |-> << >>]
    /\ rcur = [r \in Routers |-> NoLocals]
    /\ enq = [r \in Routers |-> << >>]
    /\ deq = [r \in Routers |-> 0]
    /\ applied = [r \in Routers |-> 0]

NoEvent == [time |-> 0, change |-> "", p1 |-> 0, p2 |-> 0]

\* `done` is the history of the events applied, each with the time of the clock
NoHc == [start_time |-> 0, event |-> NoEvent, wake |-> 0, link |-> 0, p2 |-> 0,
         done |-> << >>]

NoConf == [stage |-> "none"]

NoCall == [by |-> "", port |-> 0, p |-> 0, exc |-> ""]

\* no change script, and no configuration under construction
InitExt ==
    /\ changes = {}
    /\ links = EmptyMap
    /\ hc = NoHc
    /\ conf = NoConf
    /\ tried = NoCall

NoSweep == [client |-> "", idx |-> 0, pkt |-> 0]

InitCli ==
    /\ clink = [c \in Clients |-> 0]
    /\ sending = [c \in Clients |-> TRUE]
    /\ last_time = [c \in Clients |-> 0]
    /\ ctime = [c \in Clients |-> 0]
    /\ sw = [t \in Threads |-> NoSweep]
    /\ lastSent = [c \in Clients |-> FALSE]
    /\ sweeps = [c \in Clients |-> 0]

\* ------------------------------------------- the route map and its callers
\* A client thread calls self.update_fn(src, dst, route): from send_traceroutes
\* with its own address as src and the empty route, from handle_packet with the
\* route of a probe that reached it.
CallUpdateFn(t) ==
    /\ pc[t] = "h_loop"
    /\ keep_running[t]
    /\ \E d \in Clients \ {t} :
          \/ ur' = [ur EXCEPT ![t] = [NoFrame EXCEPT !.src = t, !.dst = d]]
          \/ ur' = [ur EXCEPT ![t] = [NoFrame EXCEPT !.src = d, !.dst = t,
                                                     !.route = GoodRoute(<<d, t>>)]]
    /\ Call(t, "ur_acquire", "h_loop")
    /\ UNCHANGED <<others, now, rts, shut>>

\* while self.keep_running: the loop of a router or client ends
LoopEnds(t) ==
    /\ pc[t] = "h_loop"
    /\ ~keep_running[t]
    /\ Goto(t, "dead")
    /\ UNCHANGED <<others, now, ur, rts, shut>>

\* final_routes calls reset_routes, run calls get_route_string; get_route_pickle
\* is the third reader of the map.
CallRoutesOp ==
    /\ pc["main"] = "h_main"
    /\ \E entry \in {"rs_acquire", "gs_acquire", "gp_acquire"} :
           Call("main", entry, "h_main")
    /\ UNCHANGED <<others, now, ur, rts, shut>>

InitRoutes ==
    /\ now = 0
    /\ pc = [t \in Threads |-> CASE t = "main" -> "h_main"
                                 [] t = "changes" -> "dead"
                                 [] OTHER -> "h_loop"]
    /\ stack = [t \in Threads |-> << >>]
    /\ InitRts /\ InitShut /\ InitHeap /\ InitLnk /\ InitRtr /\ InitCli /\ InitExt
    /\ link = << >>
    /\ mainIdx = 1

NextRoutes ==
    \/ Tick
    \/ ClockSetBack
    \/ \E t \in Clients :
          \/ CallUpdateFn(t)
          \/ UpdateRouteAcquire(t)
          \/ UpdateRouteStamp(t)
          \/ UpdateRouteTry(t)
          \/ UpdateRouteRelease(t)
    \/ \E t \in Routers \cup Clients : LoopEnds(t)
    \/ CallRoutesOp
    \/ GetRouteStringAcquire("main")
    \/ GetRouteStringBuild("main")
    \/ GetRouteStringRelease("main")
    \/ GetRoutePickleAcquire("main")
    \/ GetRoutePickleDumps("main")
    \/ GetRoutePickleRelease("main")
    \/ ResetRoutesAcquire("main")
    \/ ResetRoutesAssign("main")
    \/ ResetRoutesRelease("main")
    \/ HandleInterrupt
    \/ JoinAllChanges
    \/ JoinAllStop
    \/ JoinAllWait
    \/ HandleInterruptQuit

SpecRoutes == InitRoutes /\ [][NextRoutes]_vars

\* ------------------------------------------------------------------ Router
\* queue.Queue: get_nowait returns the oldest item
QueuePickNewest(q) == Len(q)

QueuePick(q) == 1

QueueRest(q) == [i \in 1..(Len(q) - 1) |-> IF i < QueuePick(q) THEN q[i] ELSE q[i + 1]]

\* a port map that still holds the port
KeepPort(m, port) == m

\* {p: link for p, link in self.links.items() if p != port}
WithoutPort(m, port) == [x \in DOMAIN m \ {port} |-> m[x]]

AddCmd(port, endpoint, l, cost) ==
    [op |-> "add", port |-> port, endpoint |-> endpoint, link |-> l, cost |-> cost]
RemoveCmd(port) == [NoCmd EXCEPT !.op = "remove", !.port = port]

MinOf(S) == CHOOSE x \in S : \A y \in S : x <= y

\* self.link_changes.put(change) on the mailbox of x, as a map of mailboxes
QueuePut(q, x, cmd) == IF x \in DOMAIN q THEN [q EXCEPT ![x] = Append(@, cmd)] ELSE q

\* Router.change_link(change): self.link_changes.put(change)
ChangeLinkPut(x, cmd) ==
    /\ link_changes' = QueuePut(link_changes, x, cmd)
    /\ enq' = QueuePut(enq, x, cmd)

\* an add_link that takes every port for free
NeverOccupied(r, port) == FALSE

\* if port in self.links
Occupied(r, port) == port \in DOMAIN rlinks[r]

\* a loop that polls no port
NoPorts(r) == {}

\* for port in self.links.keys()
PortsToPoll(r) == DOMAIN rlinks[r]

\* while self.keep_running:
RouterLoop(r) ==
    /\ pc[r] = "r_loop"
    /\ Goto(r, IF keep_running[r] THEN "r_drain" ELSE "dead")
    /\ applied' = [applied EXCEPT ![r] = 0]
    /\ UNCHANGED <<now, ur, rts, ext, shut, heap, lnk, rlinks, link_changes, rcur, enq, deq,
                   cli, mainIdx>>

\* time.sleep(0.1); time_ms; change = self.link_changes.get_nowait() and its
\* dispatch to add_link or remove_link, up to the first handler call.
\* add_link on an occupied port starts with remove_link(port).
RouterDrain(r) ==
    /\ pc[r] = "r_drain"
    /\ IF link_changes[r] = << >>
       THEN /\ Goto(r, "r_poll")
            /\ rcur' = [rcur EXCEPT ![r] = [NoLocals EXCEPT !.todo = PortsToPoll(r)]]
            /\ UNCHANGED <<rlinks, link_changes, deq, applied>>
       ELSE LET cmd == link_changes[r][QueuePick(link_changes[r])]
            IN /\ link_changes' = [link_changes EXCEPT ![r] = QueueRest(@)]
               /\ deq' = [deq EXCEPT ![r] = @ + 1]
               /\ applied' = [applied EXCEPT ![r] = @ + 1]
               /\ rcur' = [rcur EXCEPT ![r] = [NoLocals EXCEPT !.cmd = cmd]]
               /\ IF cmd.op = "add" /\ ~Occupied(r, cmd.port)
                  THEN /\ rlinks' = [rlinks EXCEPT ![r] = Put(@, cmd.port, cmd.link)]
                       /\ Goto(r, "r_h_new")
                  ELSE /\ rlinks' = [rlinks EXCEPT ![r] = WithoutPort(@, cmd.port)]
                       /\ Goto(r, "r_h_remove")
    /\ UNCHANGED <<now, ur, rts, ext, shut, heap, lnk, enq, cli, mainIdx>>

\* handle_remove_link(port) runs and returns; inside add_link the link is then
\* installed and handle_new_link called.
RouterHandleRemoveLink(r) ==
    /\ pc[r] = "r_h_remove"
    /\ IF rcur[r].cmd.op = "add"
       THEN /\ rlinks' = [rlinks EXCEPT ![r] = Put(@, rcur[r].cmd.port, rcur[r].cmd.link)]
            /\ Goto(r, "r_h_new")
            /\ UNCHANGED rcur
       ELSE /\ Goto(r, "r_poll")
            /\ rcur' = [rcur EXCEPT ![r] = [NoLocals EXCEPT !.todo = PortsToPoll(r)]]
            /\ UNCHANGED rlinks
    /\ UNCHANGED <<now, ur, rts, ext, shut, heap, lnk, link_changes, enq, deq, applied,
                   cli, mainIdx>>

\* handle_new_link(port, endpoint, cost) runs and returns
RouterHandleNewLink(r) ==
    /\ pc[r] = "r_h_new"
    /\ Goto(r, "r_poll")
    /\ rcur' = [rcur EXCEPT ![r] = [NoLocals EXCEPT !.todo = PortsToPoll(r)]]
    /\ UNCHANGED <<now, ur, rts, ext, shut, heap, lnk, rlinks, link_changes, enq, deq, applied,
                   cli, mainIdx>>

\* the Link that add_links installed, whatever the port holds now
FirstLink(r, port) == 1

\* self.links[port]
PolledLink(r, port) == rlinks[r][port]

\* for port in self.links.keys(): packet = self.links[port].recv(self.addr);
\* if packet: self.handle_packet(port, packet). The default handle_packet is
\* self.send(port, packet): the link's send, or nothing on KeyError.
RouterPoll(r) ==
    /\ pc[r] \in {"r_poll", "r_h_packet"}
    /\ IF pc[r] = "r_poll"
       THEN IF rcur[r].todo = {}
            THEN /\ Goto(r, "r_h_time")
                 /\ rcur' = [rcur EXCEPT ![r] = NoLocals]
                 /\ UNCHANGED <<heap, lnk>>
            ELSE LET port == MinOf(rcur[r].todo)
                     l == PolledLink(r, port)
                 IN /\ link' = AfterRecv(l, r)
                    /\ rcur' = [rcur EXCEPT ![r].todo = @ \ {port}, ![r].port = port,
                                            ![r].pkt = Recv(l, r)]
                    /\ recvLog' = IF Recv(l, r) = 0 THEN recvLog
                                  ELSE Append(recvLog, [p |-> Recv(l, r), dst |-> r, t |-> now,
                                                        l |-> l])
                    /\ Goto(r, IF Recv(l, r) = 0 THEN "r_poll" ELSE "r_h_packet")
                    /\ UNCHANGED <<heap, helpers, held, sendLog, endLog>>
       ELSE /\ rcur' = [rcur EXCEPT ![r].pkt = 0]
            /\ IF rcur[r].port \notin DOMAIN rlinks[r]
               THEN Goto(r, "r_poll") /\ UNCHANGED <<heap, lnk>>
               ELSE IF ~ContentOk(rcur[r].pkt)
               THEN /\ pc' = [pc EXCEPT ![r] = "raised"]
                    /\ stack' = [stack EXCEPT ![r] = << >>]
                    /\ UNCHANGED <<heap, lnk>>
               ELSE /\ Len(pkt) < MaxPkts
                    /\ LinkSend(rlinks[r][rcur[r].port], rcur[r].pkt, r)
                    /\ Goto(r, "r_poll")
                    /\ UNCHANGED <<link, held, recvLog, endLog>>
    /\ UNCHANGED <<now, ur, rts, ext, shut, rlinks, link_changes, enq, deq, applied, cli, mainIdx>>

\* handle_time(time_ms) runs and returns; the iteration is over
RouterHandleTime(r) ==
    /\ pc[r] = "r_h_time"
    /\ Goto(r, "r_loop")
    /\ UNCHANGED <<now, ur, rts, ext, shut, heap, lnk, rtr, cli, mainIdx>>

\* ------------------------------------------------ one router and its mailbox
\* The router R with the links C1 - R and C2 - R of the configuration. add_links
\* and the change script put commands in its mailbox: an "add" of a link on one
\* of its ports, or a "remove" of a port.
Ports == {1, 2}

EnqueueChange(r) ==
    /\ Len(enq[r]) < MaxCmds
    /\ \E port \in Ports :
          \/ \E l \in DOMAIN link : ChangeLinkPut(r, AddCmd(port, link[l].e1, l, 1))
          \/ ChangeLinkPut(r, RemoveCmd(port))
    /\ UNCHANGED <<now, ctl, ur, rts, ext, shut, heap, lnk, rlinks, rcur, deq, applied,
                   cli, mainIdx>>

\* RouterThread.join: self.router.keep_running = False
StopRouter(r) ==
    /\ keep_running[r]
    /\ keep_running' = [keep_running EXCEPT ![r] = FALSE]
    /\ UNCHANGED <<now, ctl, ur, rts, ext, joinIdx, interrupted, heap, lnk, rtr, cli, mainIdx>>

InitRouter ==
    /\ now = 0
    /\ pc = [t \in Threads |-> IF t \in Routers THEN "r_loop" ELSE "dead"]
    /\ stack = [t \in Threads |-> << >>]
    /\ InitRts /\ InitShut /\ InitHeap /\ InitLnk /\ InitRtr /\ InitCli /\ InitExt
    /\ link = <<LinkInit("C1", "R", 1, 1), LinkInit("C2", "R", 1, 1)>>
    /\ mainIdx = 1

NextRouter ==
    \E r \in Routers :
        \/ EnqueueChange(r)
        \/ StopRouter(r)
        \/ RouterLoop(r)
        \/ RouterDrain(r)
        \/ RouterHandleRemoveLink(r)
        \/ RouterHandleNewLink(r)
        \/ RouterPoll(r)
        \/ RouterHandleTime(r)

SpecRouter == InitRouter /\ [][NextRouter]_vars

\* ------------------------------------------------ one link and its two ends
\* The link C1 - R of the configuration, used by the client C1 and the router R.
LinkEnds == {"C1", "R"}

\* An endpoint constructs a packet: the client a probe (send_traceroutes), the
\* router a routing packet with string content.
NewPacket(a) ==
    /\ Len(pkt) < MaxPkts
    /\ LET v == IF a \in Clients THEN PacketInit("TRACEROUTE", a, "C2", NoContent)
                ELSE PacketInit("ROUTING", a, Peer(1, a), "str:x")
       IN /\ pkt' = Alloc(v, Fresh).pkt
          /\ lst' = Alloc(v, Fresh).lst
    /\ held' = Put(held, Len(pkt) + 1, a)
    /\ UNCHANGED <<now, ctl, ur, rts, ext, shut, link, helpers, sendLog, recvLog, endLog,
                   rtr, cli, mainIdx>>

\* The holder of a packet changes it: packet.addToRoute(addr), or a new content.
MutatePacket(p) ==
    /\ p \in DOMAIN held
    /\ \/ /\ Len(RouteOf(p)) < 2
          /\ lst' = [lst EXCEPT ![pkt[p].route] = Append(@, "Z")]
          /\ UNCHANGED pkt
       \/ /\ pkt[p].content # "str:y"
          /\ pkt' = [pkt EXCEPT ![p].content = "str:y"]
          /\ UNCHANGED lst
    /\ UNCHANGED <<now, ctl, ur, rts, ext, shut, lnk, rtr, cli, mainIdx>>

\* self.link.send(packet, self.addr) / self.links[port].send(packet, self.addr)
SendPacket(p) ==
    /\ p \in DOMAIN held
    /\ Len(pkt) < MaxPkts
    /\ ContentOk(p)
    /\ LinkSend(1, p, held[p])
    /\ UNCHANGED <<now, ctl, ur, rts, ext, shut, link, held, recvLog, endLog, rtr, cli, mainIdx>>

\* packet = self.link.recv(self.addr): the receiver keeps what it is given
RecvPacket(dst) ==
    /\ link' = AfterRecv(1, dst)
    /\ IF Recv(1, dst) = 0
       THEN UNCHANGED <<recvLog, held>>
       ELSE /\ recvLog' = Append(recvLog, [p |-> Recv(1, dst), dst |-> dst, t |-> now, l |-> 1])
            /\ held' = Put(held, Recv(1, dst), dst)
    /\ UNCHANGED <<now, ctl, ur, rts, ext, shut, heap, helpers, sendLog, endLog, rtr, cli, mainIdx>>

\* link.change_latency(src, c)
ChangeLatency(src, c) ==
    /\ LatencySets(1, src) < MaxSets
    /\ c * LatencyMultiplier # Latency(1, src)
    /\ link' = AfterChangeLatency(1, src, c)
    /\ UNCHANGED <<now, ctl, ur, rts, ext, shut, heap, helpers, held, sendLog, recvLog, endLog,
                   rtr, cli, mainIdx>>

InitLink ==
    /\ now = 0
    /\ pc = [t \in Threads |-> "dead"]
    /\ stack = [t \in Threads |-> << >>]
    /\ InitRts /\ InitShut /\ InitHeap /\ InitLnk /\ InitRtr /\ InitCli /\ InitExt
    /\ link = <<LinkInit("C1", "R", 1, 1)>>
    /\ mainIdx = 1

NextLink ==
    \/ Tick
    \/ \E a \in LinkEnds : NewPacket(a)
    \/ \E p \in DOMAIN held : MutatePacket(p)
    \/ \E p \in DOMAIN held : SendPacket(p)
    \/ \E dst \in LinkEnds : RecvPacket(dst)
    \/ \E src \in LinkEnds : \E c \in {1, 2} : ChangeLatency(src, c)
    \/ \E h \in helpers : SendHelper(h)

SpecLink == InitLink /\ [][NextLink]_vars

\* ------------------------------------------------------------------ Client
\* client_send_rate of the configuration, in ticks
SendRate == 1

\* the ('add', link) tuple main puts in a client's mailbox
ClientAddCmd(l) == [NoCmd EXCEPT !.op = "add", !.link = l]

\* an uncaught exception: the thread's run method is left, every frame dropped
Raise(t) ==
    /\ pc' = [pc EXCEPT ![t] = "raised"]
    /\ stack' = [stack EXCEPT ![t] = << >>]

\* a test that every kind of packet passes
AnyKind(kind) == TRUE

\* packet.kind == Packet.TRACEROUTE
IsTracerouteKind(kind) == kind = "TRACEROUTE"

\* while self.keep_running:
ClientLoop(c) ==
    /\ pc[c] = "c_loop"
    /\ Goto(c, IF keep_running[c] THEN "c_drain" ELSE "dead")
    /\ UNCHANGED <<others, now, ur, rts, shut>>

\* time.sleep(0.1); time_ms = ...; change = self.link_changes.get_nowait();
\* if change[0] == "add": self.link = change[1]
ClientDrain(c) ==
    /\ pc[c] = "c_drain"
    /\ ctime' = [ctime EXCEPT ![c] = TimeMs]
    /\ IF link_changes[c] = << >>
       THEN UNCHANGED <<link_changes, clink>>
       ELSE LET cmd == link_changes[c][QueuePick(link_changes[c])]
            IN /\ link_changes' = [link_changes EXCEPT ![c] = QueueRest(@)]
               /\ clink' = IF cmd.op = "add" THEN [clink EXCEPT ![c] = cmd.link] ELSE clink
    /\ Goto(c, "c_recv")
    /\ UNCHANGED <<now, ur, rts, ext, shut, heap, lnk, rlinks, rcur, enq, deq, applied,
                   sending, last_time, sw, lastSent, sweeps, mainIdx>>

\* if self.link: packet = self.link.recv(self.addr); if packet:
\* self.handle_packet(packet), which for a traceroute packet evaluates
\* packet.src_addr, packet.dst_addr and calls update_fn.
ClientRecv(c) ==
    /\ pc[c] = "c_recv"
    /\ IF clink[c] = 0 \/ Recv(clink[c], c) = 0
       THEN /\ Goto(c, "c_time")
            /\ UNCHANGED <<ur, link, recvLog>>
       ELSE LET p == Recv(clink[c], c)
            IN /\ link' = AfterRecv(clink[c], c)
               /\ recvLog' = Append(recvLog, [p |-> p, dst |-> c, t |-> now, l |-> clink[c]])
               /\ IF ~IsTracerouteKind(pkt[p].kind)
                  THEN Goto(c, "c_time") /\ UNCHANGED ur
                  ELSE IF HasAttr("src_addr") /\ HasAttr("dst_addr")
                  THEN /\ ur' = [ur EXCEPT ![c] = [NoFrame EXCEPT !.src = pkt[p].srcAddr,
                                                                 !.dst = pkt[p].dstAddr,
                                                                 !.route = RouteOf(p)]]
                       /\ Call(c, "ur_acquire", "c_time")
                  ELSE Raise(c) /\ UNCHANGED ur
    /\ UNCHANGED <<now, rts, ext, shut, heap, helpers, held, sendLog, endLog, rtr, cli, mainIdx>>

\* handle_time: the test of self.sending and of the send rate, and after the
\* sweep self.last_time = time_ms
ClientHandleTime(c) ==
    /\ pc[c] \in {"c_time", "c_swept"}
    /\ IF pc[c] = "c_time"
       THEN /\ Goto(c, IF sending[c] /\ ctime[c] - last_time[c] > SendRate
                       THEN "c_sweep" ELSE "c_loop")
            /\ UNCHANGED last_time
       ELSE /\ last_time' = [last_time EXCEPT ![c] = ctime[c]]
            /\ Goto(c, "c_loop")
    /\ UNCHANGED <<now, ur, rts, ext, shut, heap, lnk, rtr, clink, sending, ctime, sw, lastSent,
                   sweeps, mainIdx>>

\* handle_time, the test passed: self.send_traceroutes()
ClientSendTraceroutes(c) ==
    /\ pc[c] = "c_sweep"
    /\ sw' = [sw EXCEPT ![c] = [NoSweep EXCEPT !.client = c, !.idx = 1]]
    /\ sweeps' = [sweeps EXCEPT ![c] = IF lastSent[c] THEN @ + 1 ELSE @]
    /\ Call(c, "sw_iter", "c_swept")
    /\ UNCHANGED <<now, ur, rts, ext, shut, heap, lnk, rtr, clink, sending, last_time, ctime,
                   lastSent, mainIdx>>

\* for dst_client in self.all_clients: packet = Packet(TRACEROUTE, self.addr, dst_client)
SendTraceroutesIter(t) ==
    /\ pc[t] = "sw_iter"
    /\ IF sw[t].idx > Len(ClientOrder)
       THEN Return(t) /\ UNCHANGED <<heap, sw>>
       ELSE LET v == PacketInit("TRACEROUTE", sw[t].client, ClientOrder[sw[t].idx], NoContent)
            IN /\ pkt' = Alloc(v, Fresh).pkt
               /\ lst' = Alloc(v, Fresh).lst
               /\ sw' = [sw EXCEPT ![t].pkt = Len(pkt) + 1]
               /\ Goto(t, "sw_send")
    /\ UNCHANGED <<now, ur, rts, ext, shut, lnk, rtr, clink, sending, last_time, ctime,
                   lastSent, sweeps, mainIdx>>

\* if self.link: self.link.send(packet, self.addr); then
\* self.update_fn(packet.src_addr, packet.dst_addr, []): the attribute reads
\* and the call of update_route
SendTraceroutesSend(t) ==
    /\ pc[t] = "sw_send"
    /\ IF clink[sw[t].client] # 0
       THEN LinkSend(clink[sw[t].client], sw[t].pkt, sw[t].client)
       ELSE UNCHANGED <<heap, helpers, sendLog>>
    /\ IF HasAttr("src_addr") /\ HasAttr("dst_addr")
       THEN /\ ur' = [ur EXCEPT ![t] = [NoFrame EXCEPT !.src = pkt[sw[t].pkt].srcAddr,
                                                      !.dst = pkt[sw[t].pkt].dstAddr]]
            /\ sw' = [sw EXCEPT ![t].idx = @ + 1]
            /\ Call(t, "ur_acquire", "sw_iter")
       ELSE Raise(t) /\ UNCHANGED <<ur, sw>>
    /\ UNCHANGED <<now, rts, ext, shut, link, held, recvLog, endLog, rtr, clink, sending,
                   last_time, ctime, lastSent, sweeps, mainIdx>>

\* ------------------------------------------------------------- Network.run
\* self.links: the links of the configuration, C1 - R and C2 - R, in order
LinkTable == <<[a1 |-> "C1", a2 |-> "R", p1 |-> 1, p2 |-> 1, c12 |-> 1, c21 |-> 1],
               [a1 |-> "C2", a2 |-> "R", p1 |-> 1, p2 |-> 2, c12 |-> 1, c21 |-> 1]>>

\* RouterThread(router).start() for every router, then ClientThread(client).start()
RunStartThreads ==
    /\ pc["main"] = "m_start"
    /\ IF mainIdx <= Len(ThreadOrder)
       THEN /\ pc' = [pc EXCEPT ![ThreadOrder[mainIdx]] =
                          IF ThreadOrder[mainIdx] \in Routers THEN "r_loop" ELSE "c_loop"]
            /\ mainIdx' = mainIdx + 1
       ELSE /\ pc' = [pc EXCEPT !["main"] = "m_add_links"]
            /\ mainIdx' = 1
    /\ UNCHANGED <<now, stack, ur, rts, ext, shut, heap, lnk, rtr, cli>>

\* add_links, one link per step: the "add" commands for its two ends. The
\* configuration has no "changes": self.changes is None and no thread is
\* started for the script.
AddLinks ==
    /\ pc["main"] = "m_add_links"
    /\ IF mainIdx <= Len(LinkTable)
       THEN LET e == LinkTable[mainIdx]
                toClients == QueuePut(QueuePut(link_changes, e.a1, ClientAddCmd(mainIdx)),
                                      e.a2, ClientAddCmd(mainIdx))
                cmd1 == AddCmd(e.p1, e.a2, mainIdx, e.c12)
                cmd2 == AddCmd(e.p2, e.a1, mainIdx, e.c21)
                put(q, on) == QueuePut(IF e.a1 \in on THEN QueuePut(q, e.a1, cmd1) ELSE q,
                                       IF e.a2 \in on THEN e.a2 ELSE "", cmd2)
            IN /\ link_changes' = put(toClients, Routers)
               /\ enq' = put(enq, Routers)
               /\ mainIdx' = mainIdx + 1
               /\ Goto("main", "m_add_links")
       ELSE /\ Goto("main", "m_signal")
            /\ UNCHANGED <<link_changes, enq, mainIdx>>
    /\ UNCHANGED <<now, ur, rts, ext, shut, heap, lnk, rlinks, rcur, deq, applied, cli>>

\* signal.signal(signal.SIGINT, self.handle_interrupt)
RunSignal ==
    /\ pc["main"] = "m_signal"
    /\ Goto("main", "m_sleep")
    /\ UNCHANGED <<others, now, ur, rts, shut>>

\* time.sleep(self.end_time / 1000) is over; self.final_routes():
\* self.reset_routes(). How far the other threads have come by then is not
\* fixed by the length of the sleep.
RunSleep ==
    /\ pc["main"] = "m_sleep"
    /\ Call("main", "rs_acquire", "m_last_send")
    /\ mainIdx' = 1
    /\ UNCHANGED <<now, ur, rts, ext, shut, heap, lnk, rtr, cli>>

\* final_routes after reset_routes: client.last_send() for every client
\* (self.sending = False; self.send_traceroutes()), the sleep, and back in run
\* the report (get_route_string, written to stdout) and join_all.
FinalRoutes ==
    /\ pc["main"] \in {"m_last_send", "m_report", "m_join"}
    /\ CASE pc["main"] = "m_last_send" /\ mainIdx <= Len(ClientOrder) ->
                LET c == ClientOrder[mainIdx]
                IN /\ sending' = [sending EXCEPT ![c] = FALSE]
                   /\ lastSent' = [lastSent EXCEPT ![c] = TRUE]
                   /\ sweeps' = [sweeps EXCEPT ![c] = @ + 1]
                   /\ sw' = [sw EXCEPT !["main"] = [NoSweep EXCEPT !.client = c, !.idx = 1]]
                   /\ mainIdx' = mainIdx + 1
                   /\ Call("main", "sw_iter", "m_last_send")
         [] pc["main"] = "m_last_send" /\ mainIdx > Len(ClientOrder) ->
                /\ Goto("main", "m_report")
                /\ UNCHANGED <<sending, lastSent, sweeps, sw, mainIdx>>
         [] pc["main"] = "m_report" ->
                /\ Call("main", "gs_acquire", "m_join")
                /\ UNCHANGED <<sending, lastSent, sweeps, sw, mainIdx>>
         [] pc["main"] = "m_join" ->
                /\ Call("main", "join_changes", "done")
                /\ UNCHANGED <<sending, lastSent, sweeps, sw, mainIdx>>
    /\ UNCHANGED <<now, ur, rts, ext, shut, heap, lnk, rtr, clink, last_time, ctime>>

\* ------------------------------------------------------- the whole program
\* Network.run on the configuration above, from the start of the threads on.
\* No probe ever calls update_route, main never comes back from final_routes
\* and no add finds its port occupied, so the steps of update_route, of
\* get_route_string, of join_all and of the handle_remove_link call are not
\* among the steps of this program.
InitNet ==
    /\ now = 0
    /\ pc = [t \in Threads |-> CASE t = "main" -> "m_start"
                                 [] t = "changes" -> "dead"
                                 [] OTHER -> "new"]
    /\ stack = [t \in Threads |-> << >>]
    /\ InitRts /\ InitShut /\ InitHeap /\ InitLnk /\ InitRtr /\ InitCli /\ InitExt
    /\ link = [i \in DOMAIN LinkTable |->
                  LinkInit(LinkTable[i].a1, LinkTable[i].a2, LinkTable[i].c12, LinkTable[i].c21)]
    /\ mainIdx = 1

NextNet ==
    \/ RunStartThreads
    \/ AddLinks
    \/ RunSignal
    \/ RunSleep
    \/ ResetRoutesAcquire("main")
    \/ ResetRoutesAssign("main")
    \/ ResetRoutesRelease("main")
    \/ FinalRoutes
    \/ \E t \in Clients \cup {"main"} :
          \/ SendTraceroutesIter(t)
          \/ SendTraceroutesSend(t)
    \/ \E c \in Clients :
          \/ ClientLoop(c)
          \/ ClientDrain(c)
          \/ ClientRecv(c)
          \/ ClientHandleTime(c)
          \/ ClientSendTraceroutes(c)
    \/ \E r \in Routers :
          \/ RouterLoop(r)
          \/ RouterDrain(r)
          \/ RouterHandleNewLink(r)
          \/ RouterPoll(r)
          \/ RouterHandleTime(r)
    \/ \E h \in helpers : SendHelper(h)

SpecNet == InitNet /\ [][NextNet]_vars

\* ------------------------------------------- a router subclass that sends
\* except KeyError: pass, with nothing caught
CaughtNothing(exc) == FALSE

\* Router.send: try ... except KeyError: pass
Caught(exc) == exc = "KeyError"

\* self.send(port, packet): self.links[port] raises KeyError for a port that is
\* not installed, Link.send raises AssertionError for a content that is truthy
\* and not a string; only the first is caught.
RouterSend(r, port, p) ==
    LET exc == IF port \notin DOMAIN rlinks[r] THEN "KeyError"
               ELSE IF ~ContentOk(p) THEN "AssertionError"
               ELSE "none"
    IN /\ tried' = [by |-> r, port |-> port, p |-> p, exc |-> exc]
       /\ IF exc = "none"
          THEN /\ Len(pkt) < MaxPkts
               /\ LinkSend(rlinks[r][port], p, r)
               /\ UNCHANGED ctl
          ELSE /\ UNCHANGED <<heap, helpers, sendLog>>
               /\ IF Caught(exc) THEN UNCHANGED ctl ELSE Raise(r)

\* the contents a subclass gives its packets: None, a string, and values that
\* are not strings, falsy (0) and truthy (5)
Contents == {NoContent, "str:x", "int:0", "int:5"}

\* A handler of a subclass (handle_time here) builds a packet.
SubclassPacket(r, content) ==
    /\ pc[r] = "r_h_time"
    /\ Len(pkt) < MaxPkts
    /\ LET v == PacketInit("ROUTING", r, "C1", content)
       IN /\ pkt' = Alloc(v, Fresh).pkt
          /\ lst' = Alloc(v, Fresh).lst
    /\ held' = Put(held, Len(pkt) + 1, r)
    /\ UNCHANGED <<now, ctl, ur, rts, shut, link, helpers, sendLog, recvLog, endLog,
                   rtr, cli, mainIdx, ext>>

\* A handler of a subclass calls self.send(port, packet).
SubclassSend(r, port, p) ==
    /\ pc[r] = "r_h_time"
    /\ p \in DOMAIN held /\ held[p] = r
    /\ RouterSend(r, port, p)
    /\ UNCHANGED <<now, ur, rts, shut, link, held, recvLog, endLog, rtr, cli, mainIdx,
                   changes, links, hc, conf>>

\* Link.send(packet, src) on the link C1 - R by an address that is no endpoint
StrangerSend(p, src) ==
    /\ p \in DOMAIN held
    /\ Len(pkt) < MaxPkts
    /\ ContentOk(p)
    /\ LinkSend(1, p, src)
    /\ UNCHANGED <<now, ctl, ur, rts, shut, link, held, recvLog, endLog, rtr, cli, mainIdx, ext>>

\* Link.recv(dst) on the link C1 - R by an address that is no endpoint
StrangerRecv(dst) ==
    /\ link' = AfterRecv(1, dst)
    /\ tried' = [NoCall EXCEPT !.by = dst,
                               !.exc = IF Recv(1, dst) = 0 THEN "recv:None" ELSE "recv:packet"]
    /\ UNCHANGED <<now, ctl, ur, rts, shut, heap, helpers, held, sendLog, recvLog, endLog,
                   rtr, cli, mainIdx, changes, links, hc, conf>>

\* a scripted "down": ("remove", port) put in the router's mailbox
EnqueueRemove(r) ==
    /\ Len(enq[r]) < MaxCmds
    /\ \E port \in Ports : ChangeLinkPut(r, RemoveCmd(port))
    /\ UNCHANGED <<now, ctl, ur, rts, shut, heap, lnk, rlinks, rcur, deq, applied,
                   cli, mainIdx, ext>>

Strangers == {"C2"}

\* The router R after add_links: the "add" of its two links is in its mailbox.
InitSend ==
    /\ now = 0
    /\ pc = [t \in Threads |-> IF t \in Routers THEN "r_loop" ELSE "dead"]
    /\ stack = [t \in Threads |-> << >>]
    /\ InitRts /\ InitShut /\ InitHeap /\ InitLnk /\ InitCli /\ InitExt
    /\ link = [i \in DOMAIN LinkTable |->
                  LinkInit(LinkTable[i].a1, LinkTable[i].a2, LinkTable[i].c12, LinkTable[i].c21)]
    /\ rlinks = [r \in Routers |-> EmptyMap]
    /\ link_changes = [x \in Routers \cup Clients |->
                          IF x \in Routers
                          THEN [i \in DOMAIN LinkTable |->
                                   AddCmd(LinkTable[i].p2, LinkTable[i].a1, i, LinkTable[i].c21)]
                          ELSE << >>]
    /\ enq = [r \in Routers |-> link_changes[r]]
    /\ rcur = [r \in Routers |-> NoLocals]
    /\ deq = [r \in Routers |-> 0]
    /\ applied = [r \in Routers |-> 0]
    /\ mainIdx = 1

NextSend ==
    \/ \E r \in Routers :
          \/ EnqueueRemove(r)
          \/ RouterLoop(r)
          \/ RouterDrain(r)
          \/ RouterHandleRemoveLink(r)
          \/ RouterHandleNewLink(r)
          \/ RouterPoll(r)
          \/ RouterHandleTime(r)
          \/ \E content \in Contents : SubclassPacket(r, content)
          \/ \E port \in Ports : \E p \in DOMAIN held : SubclassSend(r, port, p)
    \/ \E src \in Strangers : \E p \in DOMAIN held : StrangerSend(p, src)
    \/ \E dst \in Strangers : StrangerRecv(dst)
    \/ \E h \in helpers : SendHelper(h)

SpecSend == InitSend /\ [][NextSend]_vars

\* -------------------------------------------------- Network.handle_changes
\* A scripted event (change_time, target, change) on the adjacency `Adj`:
\* "down" with target (a1, a2), "up" with target (a1, a2, p1, p2, c12, c21).
Adj == <<"R", "S">>

DownEvent(time) == [NoEvent EXCEPT !.time = time, !.change = "down"]
UpEvent(time, p1, p2) == [time |-> time, change |-> "up", p1 |-> p1, p2 |-> p2]

\* queue.PriorityQueue orders the tuples: by change_time, then by target (the
\* target of a "down" is a proper prefix of the target of an "up" on the same
\* adjacency, hence smaller; two "up" targets compare by p1, then p2)
EventKey(e) == <<e.time, IF e.change = "down" THEN 0 ELSE 1, e.p1, e.p2>>

Before(e, f) ==
    \E i \in 1..4 : /\ EventKey(e)[i] < EventKey(f)[i]
                    /\ \A j \in 1..(i - 1) : EventKey(e)[j] = EventKey(f)[j]

\* a queue that hands out the latest event first
Latest(S) == CHOOSE e \in S : \A f \in S \ {e} : Before(f, e)

\* self.changes.get()
Earliest(S) == CHOOSE e \in S : \A f \in S \ {e} : Before(e, f)

\* a lookup that gives both routers the port of the first one
PortOfFirst(entry, r) == entry.p1

\* p1, p2, link = self.links[(addr1, addr2)]: the port of router r in the
\* table entry of Adj
PortOf(entry, r) == IF r = Adj[1] THEN entry.p1 ELSE entry.p2

\* start_time = time.time() * 1000
HandleChangesStart ==
    /\ pc["changes"] = "hc_start"
    /\ hc' = [hc EXCEPT !.start_time = now]
    /\ Goto("changes", "hc_loop")
    /\ UNCHANGED <<now, ur, rts, shut, heap, lnk, rtr, cli, mainIdx, changes, links, conf, tried>>

\* while not self.changes.empty(): change_time, target, change =
\* self.changes.get(); current_time; wait_time
HandleChangesGet ==
    /\ pc["changes"] = "hc_loop"
    /\ IF changes = {}
       THEN /\ Goto("changes", "dead")
            /\ UNCHANGED <<changes, hc>>
       ELSE LET e == Earliest(changes)
                wait_time == (e.time * LatencyMultiplier + hc.start_time) - now
            IN /\ changes' = changes \ {e}
               /\ hc' = [hc EXCEPT !.event = e,
                                   !.wake = IF wait_time > 0 THEN now + wait_time ELSE now]
               /\ Goto("changes", "hc_wait")
    /\ UNCHANGED <<now, ur, rts, shut, heap, lnk, rtr, cli, mainIdx, links, conf, tried>>

\* the sleep is over. "up": link = Link(...); self.links[(addr1, addr2)] = ...;
\* change_link of the first router. "down": the lookup in self.links (KeyError
\* without an entry) and change_link of the first router.
HandleChangesApply ==
    /\ pc["changes"] = "hc_wait"
    /\ now >= hc.wake
    /\ LET e == hc.event
       IN IF e.change = "up"
          THEN /\ link' = Append(link, LinkInit(Adj[1], Adj[2], 1, 1))
               /\ links' = Put(links, Adj, [p1 |-> e.p1, p2 |-> e.p2, link |-> Len(link) + 1])
               /\ hc' = [hc EXCEPT !.link = Len(link) + 1, !.p2 = e.p2,
                                   !.done = Append(@, [event |-> e, at |-> now])]
               /\ ChangeLinkPut(Adj[1], AddCmd(e.p1, Adj[2], Len(link) + 1, 1))
               /\ Goto("changes", "hc_second")
          ELSE IF Adj \notin DOMAIN links
          THEN /\ Raise("changes")
               /\ UNCHANGED <<link, links, hc, link_changes, enq>>
          ELSE /\ hc' = [hc EXCEPT !.link = links[Adj].link, !.p2 = PortOf(links[Adj], Adj[2]),
                                   !.done = Append(@, [event |-> e, at |-> now])]
               /\ ChangeLinkPut(Adj[1], RemoveCmd(PortOf(links[Adj], Adj[1])))
               /\ Goto("changes", "hc_second")
               /\ UNCHANGED <<link, links>>
    /\ UNCHANGED <<now, ur, rts, shut, heap, helpers, held, sendLog, recvLog, endLog,
                   rlinks, rcur, deq, applied, cli, mainIdx, changes, conf, tried>>

\* change_link of the second router; no visualize_changes_callback is registered
HandleChangesSecond ==
    /\ pc["changes"] = "hc_second"
    /\ IF hc.event.change = "up"
       THEN ChangeLinkPut(Adj[2], AddCmd(hc.p2, Adj[1], hc.link, 1))
       ELSE ChangeLinkPut(Adj[2], RemoveCmd(hc.p2))
    /\ Goto("changes", "hc_loop")
    /\ UNCHANGED <<now, ur, rts, shut, heap, lnk, rlinks, rcur, deq, applied, cli, mainIdx, ext>>

\* ------------------------------------------- two routers and a change script
\* Routers R and S joined by one link on port 1 of each, after add_links, and
\* a script of up to MaxEvents events on that adjacency.
ScriptRouters == {Adj[1], Adj[2]}

EventChoices ==
    {DownEvent(t) : t \in 0..MaxTime}
        \cup {UpEvent(t, p1, p2) : t \in 0..MaxTime, p1 \in Ports, p2 \in Ports}

\* the script is over and every command it gave has been applied
Drained ==
    /\ pc["changes"] = "dead"
    /\ \A r \in ScriptRouters : link_changes[r] = << >> /\ pc[r] = "r_h_time"

\* once the script is applied, a subclass handler builds a packet for the peer
PacketAfterScript(r) == Drained /\ SubclassPacket(r, "str:x")

\* and sends it on the router's port for the adjacency
SendAfterScript(r, p) ==
    /\ Drained
    /\ Adj \in DOMAIN links
    /\ SubclassSend(r, PortOf(links[Adj], r), p)

InitScript(scripts) ==
    /\ now = 0
    /\ pc = [t \in {"main", "changes"} \cup ScriptRouters |->
                CASE t = "main" -> "m_sleep"
                  [] t = "changes" -> "hc_start"
                  [] OTHER -> "r_loop"]
    /\ stack = [t \in {"main", "changes"} \cup ScriptRouters |-> << >>]
    /\ InitRts /\ InitHeap /\ InitLnk /\ InitCli
    /\ keep_running = [r \in ScriptRouters |-> TRUE]
    /\ joinIdx = 1
    /\ interrupted = FALSE
    /\ link = <<LinkInit(Adj[1], Adj[2], 1, 1)>>
    /\ links = Put(EmptyMap, Adj, [p1 |-> 1, p2 |-> 1, link |-> 1])
    /\ rlinks = [r \in ScriptRouters |-> EmptyMap]
    /\ link_changes = [r \in ScriptRouters |->
                          <<AddCmd(1, IF r = Adj[1] THEN Adj[2] ELSE Adj[1], 1, 1)>>]
    /\ enq = link_changes
    /\ rcur = [r \in ScriptRouters |-> NoLocals]
    /\ deq = [r \in ScriptRouters |-> 0]
    /\ applied = [r \in ScriptRouters |-> 0]
    /\ changes \in scripts
    /\ hc = NoHc
    /\ conf = [stage |-> "script", script |-> changes]
    /\ tried = NoCall
    /\ mainIdx = 1

InitChanges == InitScript({S \in SUBSET EventChoices : Cardinality(S) <= MaxEvents})

NextChanges ==
    \/ Tick
    \/ HandleChangesStart
    \/ HandleChangesGet
    \/ HandleChangesApply
    \/ HandleChangesSecond
    \/ \E r \in ScriptRouters :
          \/ RouterLoop(r)
          \/ RouterDrain(r)
          \/ RouterHandleRemoveLink(r)
          \/ RouterHandleNewLink(r)
          \/ RouterPoll(r)
          \/ RouterHandleTime(r)
          \/ PacketAfterScript(r)
          \/ \E p \in DOMAIN held : SendAfterScript(r, p)
    \/ \E h \in helpers : SendHelper(h)

SpecChanges == InitChanges /\ [][NextChanges]_vars

\* ------------------------------------------ Network.__init__ on any config
\* The addresses a configuration file may name; "X" is in no list of routers
\* or clients.
Addrs == {"R", "S", "C1", "C2", "X"}

\* lists of one or two addresses
Lists(S) == {<<a>> : a \in S} \cup {<<a, b>> : a \in S, b \in S}

Elems(sq) == {sq[i] : i \in DOMAIN sq}

\* "routers", "clients", one entry of "links" and at most one "up" event of
\* "changes", as read from the file
Configs ==
    [stage : {"file"},
     routers : Lists({"R", "S"}),
     clients : Lists({"C1", "C2"}),
     link : {<<"C1", "R">>, <<"C1", "X">>, <<"X", "R">>, <<"R", "S">>},
     change : {<< >>, <<"R", "S">>, <<"R", "X">>, <<"X", "S">>},
     rmap : {{}},
     cmap : {{}}]

\* Network.__init__: parse_routers and parse_clients fill a dict per list (an
\* address listed twice keeps one entry), parse_links constructs a Link per
\* entry and parse_changes queues the events; no address is looked up.
NetworkInit ==
    /\ pc["main"] = "new"
    /\ conf' = [conf EXCEPT !.stage = "constructed",
                            !.rmap = Elems(conf.routers),
                            !.cmap = Elems(conf.clients)]
    /\ link' = <<LinkInit(conf.link[1], conf.link[2], 1, 1)>>
    /\ links' = Put(EmptyMap, conf.link, [p1 |-> 1, p2 |-> 1, link |-> 1])
    /\ changes' = IF conf.change = << >> THEN {} ELSE {UpEvent(0, 2, 2)}
    /\ Goto("main", "m_start")
    /\ UNCHANGED <<now, ur, rts, shut, heap, helpers, held, sendLog, recvLog, endLog,
                   rtr, cli, mainIdx, hc, tried>>

\* run: RouterThread(router).start() for every router, ClientThread(client)
\* .start() for every client
ConfigStartThreads ==
    /\ pc["main"] = "m_start"
    /\ pc' = [t \in DOMAIN pc |->
                 CASE t = "main" -> "m_add_links"
                   [] t \in conf.rmap -> "r_loop"
                   [] t \in conf.cmap -> "c_loop"
                   [] OTHER -> pc[t]]
    /\ UNCHANGED <<now, stack, ur, rts, shut, heap, lnk, rtr, cli, mainIdx, ext>>

\* add_links: a command for every end that is a client, then for every end
\* that is a router; an end that is neither gets nothing. Then
\* if self.changes: HandleChangesThread(self).start()
ConfigAddLinks ==
    /\ pc["main"] = "m_add_links"
    /\ LET a1 == conf.link[1]
           a2 == conf.link[2]
           put(q, a, on, cmd) == IF a \in on THEN QueuePut(q, a, cmd) ELSE q
           all(q) == put(put(put(put(q, a1, conf.cmap, ClientAddCmd(1)),
                                 a2, conf.cmap, ClientAddCmd(1)),
                             a1, conf.rmap, AddCmd(1, a2, 1, 1)),
                         a2, conf.rmap, AddCmd(1, a1, 1, 1))
       IN /\ link_changes' = all(link_changes)
          /\ enq' = all(enq)
    /\ pc' = [pc EXCEPT !["main"] = "m_signal",
                        !["changes"] = IF conf.change = << >> THEN @ ELSE "hc_start"]
    /\ UNCHANGED <<now, stack, ur, rts, shut, heap, lnk, rlinks, rcur, deq, applied,
                   cli, mainIdx, ext>>

\* handle_changes on the "up" event: the Link is constructed and stored in the
\* table, then self.routers[addr1] and self.routers[addr2] are looked up
\* (KeyError on an address that is no router).
ConfigHandleChanges ==
    /\ pc["changes"] = "hc_start"
    /\ LET a1 == conf.change[1]
           a2 == conf.change[2]
           e == Earliest(changes)
           cmd1 == AddCmd(e.p1, a2, Len(link) + 1, 1)
           cmd2 == AddCmd(e.p2, a1, Len(link) + 1, 1)
       IN /\ changes' = changes \ {e}
          /\ link' = Append(link, LinkInit(a1, a2, 1, 1))
          /\ links' = Put(links, conf.change, [p1 |-> e.p1, p2 |-> e.p2, link |-> Len(link) + 1])
          /\ hc' = [hc EXCEPT !.event = e, !.link = Len(link) + 1,
                              !.done = Append(@, [event |-> e, at |-> now])]
          /\ CASE a1 \notin conf.rmap ->
                    /\ Raise("changes")
                    /\ UNCHANGED <<link_changes, enq>>
               [] a1 \in conf.rmap /\ a2 \notin conf.rmap ->
                    /\ Raise("changes")
                    /\ ChangeLinkPut(a1, cmd1)
               [] OTHER ->
                    /\ Goto("changes", "hc_loop")
                    /\ link_changes' = QueuePut(QueuePut(link_changes, a1, cmd1), a2, cmd2)
                    /\ enq' = QueuePut(QueuePut(enq, a1, cmd1), a2, cmd2)
    /\ UNCHANGED <<now, ur, rts, shut, heap, helpers, held, sendLog, recvLog, endLog,
                   rlinks, rcur, deq, applied, cli, mainIdx, conf, tried>>

InitConfig ==
    /\ now = 0
    /\ pc = [t \in {"main", "changes"} \cup Addrs |-> "new"]
    /\ stack = [t \in {"main", "changes"} \cup Addrs |-> << >>]
    /\ InitRts /\ InitShut /\ InitHeap /\ InitLnk /\ InitCli
    /\ link = << >>
    /\ links = EmptyMap
    /\ rlinks = [a \in Addrs |-> EmptyMap]
    /\ link_changes = [a \in Addrs |-> << >>]
    /\ enq = link_changes
    /\ rcur = [a \in Addrs |-> NoLocals]
    /\ deq = [a \in Addrs |-> 0]
    /\ applied = [a \in Addrs |-> 0]
    /\ changes = {}
    /\ hc = NoHc
    /\ conf \in Configs
    /\ tried = NoCall
    /\ mainIdx = 1

NextConfig ==
    \/ NetworkInit
    \/ ConfigStartThreads
    \/ ConfigAddLinks
    \/ ConfigHandleChanges

SpecConfig == InitConfig /\ [][NextConfig]_vars

\* ------------------------------------------------- a client that is sent to
\* The run of the network with packets arriving for the clients: a packet of
\* either kind from the other client is put in the queue of the client's link
\* that leads to the client, as the last step of a delivery does. The router
\* threads are started and left out of the schedule.
QueuePacket(l, kind) ==
    /\ Len(pkt) < MaxPkts
    /\ link[l].e1 \in Clients
    /\ link[l].q12 = << >> /\ link[l].q21 = << >>
    /\ LET dst == link[l].e1
           src == CHOOSE c \in Clients : c # dst
           v == PacketInit(kind, src, dst, NoContent)
       IN /\ pkt' = Alloc(v, Fresh).pkt
          /\ lst' = Alloc(v, Fresh).lst
          /\ link' = [link EXCEPT ![l].q21 = Append(@, Len(pkt) + 1)]
    /\ UNCHANGED <<now, ctl, ur, rts, ext, shut, helpers, held, sendLog, recvLog, endLog,
                   rtr, cli, mainIdx>>

NextClient ==
    \/ RunStartThreads
    \/ AddLinks
    \/ RunSignal
    \/ \E l \in DOMAIN link : \E kind \in {"TRACEROUTE", "ROUTING"} : QueuePacket(l, kind)
    \/ \E t \in Clients :
          \/ SendTraceroutesIter(t)
          \/ SendTraceroutesSend(t)
    \/ \E c \in Clients :
          \/ ClientLoop(c)
          \/ ClientDrain(c)
          \/ ClientRecv(c)
          \/ ClientHandleTime(c)
          \/ ClientSendTraceroutes(c)
    \/ \E h \in helpers : SendHelper(h)

SpecClient == InitNet /\ [][NextClient]_vars

\* ----------------------------------------- routers that are sent to, script
\* The two routers and the change script, with packets arriving: a ROUTING
\* packet from the peer is put in the queue of a link of the adjacency (in use
\* or not) that leads to router r, as the last step of a delivery does. The
\* packets arrive for the first router of the adjacency.
QueueToRouter(l, r) ==
    /\ Len(pkt) < MaxPkts - 1
    /\ link[l].q12 = << >> /\ link[l].q21 = << >>
    /\ LET v == PacketInit("ROUTING", Peer(l, r), r, "str:x")
       IN /\ pkt' = Alloc(v, Fresh).pkt
          /\ lst' = Alloc(v, Fresh).lst
    /\ link' = IF r = link[l].e2
               THEN [link EXCEPT ![l].q12 = Append(@, Len(pkt) + 1)]
               ELSE [link EXCEPT ![l].q21 = Append(@, Len(pkt) + 1)]
    /\ UNCHANGED <<now, ctl, ur, rts, ext, shut, helpers, held, sendLog, recvLog, endLog,
                   rtr, cli, mainIdx>>

\* scripts of events that are all due at the start
PollScripts ==
    {S \in SUBSET {DownEvent(0), UpEvent(0, 1, 1), UpEvent(0, 2, 1)} :
        Cardinality(S) <= MaxEvents}

InitPoll == InitScript(PollScripts)

NextPoll ==
    \/ HandleChangesStart
    \/ HandleChangesGet
    \/ HandleChangesApply
    \/ HandleChangesSecond
    \/ \E r \in ScriptRouters :
          \/ RouterLoop(r)
          \/ RouterDrain(r)
          \/ RouterHandleRemoveLink(r)
          \/ RouterHandleNewLink(r)
          \/ RouterPoll(r)
          \/ RouterHandleTime(r)
    \/ \E l \in DOMAIN link : QueueToRouter(l, Adj[1])
    \/ \E h \in helpers : SendHelper(h)

SpecPoll == InitPoll /\ [][NextPoll]_vars

\* the same with one packet arriving, and the routers scheduled for ever
QueueFirst(l, r) == pkt = << >> /\ QueueToRouter(l, r)

RouterStep(r) ==
    \/ RouterLoop(r)
    \/ RouterDrain(r)
    \/ RouterHandleRemoveLink(r)
    \/ RouterHandleNewLink(r)
    \/ RouterPoll(r)
    \/ RouterHandleTime(r)

NextFairPoll ==
    \/ HandleChangesStart
    \/ HandleChangesGet
    \/ HandleChangesApply
    \/ HandleChangesSecond
    \/ \E r \in ScriptRouters : RouterStep(r)
    \/ \E l \in DOMAIN link : QueueFirst(l, Adj[1])
    \/ \E h \in helpers : SendHelper(h)

\* Scheduling: the thread of a router that can take a step does take one.
FairPoll ==
    /\ InitPoll
    /\ [][NextFairPoll]_vars
    /\ \A r \in ScriptRouters : WF_vars(RouterStep(r))

\* ================================================================== claims
UrKey(t) == <<ur[t].src, ur[t].dst>>

\* Outside the window between a call's stamp and its store, the stored entry
\* of a key carries the greatest stamp taken for the key since the last reset.
StoredIsYoungest ==
    \A k \in DOMAIN stamped :
        (\A t \in Threads : ~(pc[t] = "ur_try" /\ UrKey(t) = k))
            => (k \in DOMAIN routes /\ routes[k].time_ms = stamped[k])

\* No step lowers a stored stamp, and the store step of a call whose stamp is
\* not greater than the stored one changes nothing.
YoungestWinsStep ==
    /\ \A k \in DOMAIN routes \cap DOMAIN routes' :
           routes'[k].time_ms >= routes[k].time_ms
    /\ \A t \in Threads :
           (/\ pc[t] = "ur_try"
            /\ pc'[t] = "ur_release"
            /\ UrKey(t) \in DOMAIN routes
            /\ ur[t].time_ms <= routes[UrKey(t)].time_ms)
               => routes' = routes

\* C1: youngest-wins aggregation. For every interleaving of update_route calls
\* on one key, the stored entry carries the greatest timestamp stamped so far
\* for the key, the stored timestamp never decreases, and a call whose stamp is
\* equal to or earlier than the stored stamp leaves the entry unchanged.
C1_YoungestWins == []StoredIsYoungest /\ [][YoungestWinsStep]_vars

\* C1 witness: a call stamped earlier than the stored entry has been dropped
\* (the stored route is not the one it carried) while the other client waits
\* for the lock with a call of its own.
C1_Witness ==
    \E t \in Clients : \E u \in Clients \ {t} :
        /\ pc[t] = "ur_release"
        /\ pc[u] = "ur_acquire"
        /\ UrKey(t) \in DOMAIN routes
        /\ ur[t].time_ms < routes[UrKey(t)].time_ms
        /\ routes[UrKey(t)].route # ur[t].route

\* the statements of the four operations between acquire and the end of release
HoldingPcs == {"ur_stamp", "ur_try", "ur_release", "gs_build", "gs_release",
               "gp_dumps", "gp_release", "rs_assign", "rs_release"}

\* the statements that read or write Network.routes
AccessPcs == {"ur_try", "gs_build", "gp_dumps", "rs_assign"}

\* the thread is inside a critical section, possibly below an interrupt handler
InsideRoutesOp(t) ==
    \/ pc[t] \in HoldingPcs
    \/ \E i \in DOMAIN stack[t] : stack[t][i] \in HoldingPcs

\* Every access to the map is made by the holder of the lock, and at most one
\* thread is inside a critical section.
AccessUnderLock ==
    /\ \A t \in Threads : pc[t] \in AccessPcs => routes_lock = t
    /\ Cardinality({t \in Threads : InsideRoutesOp(t)}) <= 1

\* C2: every read and write of Network.routes happens while routes_lock is
\* held, at most one task is inside such a critical section, and the lock is
\* released on every exit path: a thread that has left the operation, in
\* whatever way, no longer holds the lock.
C2_LockDiscipline ==
    /\ AccessUnderLock
    /\ \A t \in Threads : routes_lock = t => InsideRoutesOp(t)

\* ------------------------------------------------------------ C5 .. C8: Link
\* the packets handed or about to be handed to endpoint dst of link l, in order
Delivered(l, dst) ==
    LET got == SelectSeq(recvLog, LAMBDA r : r.dst = dst)
        q == IF dst = link[l].e1 THEN link[l].q21 ELSE link[l].q12
    IN [i \in 1..Len(got) |-> got[i].p] \o q

InSeq(x, sq) == \E i \in DOMAIN sq : sq[i] = x
Pos(x, sq) == CHOOSE i \in DOMAIN sq : sq[i] = x

\* the _send_helper thread of copy p has ended
DeliveryOver(p) == \E e \in endLog : e.p = p

\* link traversals of a packet: one more than the packet it was copied from
RECURSIVE Hops(_)
Hops(p) ==
    IF \E i \in DOMAIN sendLog : sendLog[i].p = p
    THEN 1 + Hops(sendLog[CHOOSE i \in DOMAIN sendLog : sendLog[i].p = p].orig)
    ELSE 0

RECURSIVE PortMap(_)
PortMap(cmds) ==
    IF cmds = << >> THEN EmptyMap
    ELSE LET before == PortMap(SubSeq(cmds, 1, Len(cmds) - 1))
             c == cmds[Len(cmds)]
         IN IF c.op = "add"
            THEN [x \in DOMAIN before \cup {c.port} |->
                      IF x = c.port THEN c.link ELSE before[x]]
            ELSE [x \in DOMAIN before \ {c.port} |-> before[x]]

Dequeued(r) == SubSeq(enq[r], 1, deq[r])

\* the states in which a handler of router r has just been called
HandlerPcs == {"r_h_remove", "r_h_new", "r_h_packet", "r_h_time"}

\* C9: mailbox order. The commands a router has dequeued are the first ones
\* put in its mailbox, in the order they were put (what is left in the mailbox
\* are the later ones); an iteration of the loop applies at most one; and once
\* a command is applied the port map is the one of all the commands up to it.
C9_MailboxOrder ==
    \A r \in Routers :
        /\ deq[r] <= Len(enq[r])
        /\ link_changes[r] = SubSeq(enq[r], deq[r] + 1, Len(enq[r]))
        /\ applied[r] <= 1
        /\ pc[r] \in {"r_poll", "r_h_time", "r_loop"} => rlinks[r] = PortMap(Dequeued(r))

\* C9 witness: A and B were both waiting in the mailbox, the router has applied
\* A (its port map is the one after A, not the one after A and B) and B is
\* still in the mailbox.
C9_Witness ==
    \E r \in Routers :
        /\ Len(enq[r]) >= 2
        /\ deq[r] = 1
        /\ pc[r] = "r_h_time"
        /\ link_changes[r] = Tail(enq[r])
        /\ rlinks[r] = PortMap(<<enq[r][1]>>)
        /\ rlinks[r] # PortMap(SubSeq(enq[r], 1, 2))
        /\ rlinks[r] # PortMap(<<enq[r][2]>>)

\* C10 as stated: at every handler call Router.links is the port map of exactly
\* the commands dequeued so far, the handle_remove_link call inside an "add" on
\* an occupied port included.
C10_NoTornView ==
    \A r \in Routers :
        pc[r] \in HandlerPcs => rlinks[r] = PortMap(Dequeued(r))

\* the handle_remove_link call that add_link makes for an occupied port
RemoveInsideAdd(r) == pc[r] = "r_h_remove" /\ rcur[r].cmd.op = "add"

\* C10 amended: at every handler call Router.links is the port map of the
\* commands dequeued so far, except at the handle_remove_link call inside an
\* "add" on an occupied port, where it is the port map of the commands before
\* that "add" with the port removed.
C10_NoTornViewButInsideAdd ==
    \A r \in Routers :
        pc[r] \in HandlerPcs =>
            IF RemoveInsideAdd(r)
            THEN LET before == PortMap(SubSeq(enq[r], 1, deq[r] - 1))
                 IN /\ rcur[r].cmd.port \in DOMAIN before
                    /\ rlinks[r] = [x \in DOMAIN before \ {rcur[r].cmd.port} |-> before[x]]
            ELSE rlinks[r] = PortMap(Dequeued(r))

\* C10 witness: handle_remove_link is being called for an "add" that replaces
\* the link of an occupied port while another port is installed.
C10_Witness ==
    \E r \in Routers :
        /\ RemoveInsideAdd(r)
        /\ rlinks[r] # EmptyMap
        /\ rcur[r].cmd.link # PortMap(SubSeq(enq[r], 1, deq[r] - 1))[rcur[r].cmd.port]

\* ------------------------------------------------- C3, C4: the final burst
\* main has left final_routes, by its return or by an exception
FinalBurstOver ==
    /\ \E c \in Clients : lastSent[c]
    /\ pc["main"] \in {"raised", "m_report", "m_join", "done", "gs_acquire", "gs_build",
                       "gs_release", "join_changes", "join_set", "join_wait"}

\* the pairs with a probe of the final burst that reached its destination client
Reached == {<<pkt[recvLog[i].p].srcAddr, pkt[recvLog[i].p].dstAddr>> :
                i \in {j \in DOMAIN recvLog : recvLog[j].dst \in Clients}}

\* C3: after the final burst every client pair whose probe reached no client
\* has an entry in the route map, with the empty route and is_correct false,
\* and the report made from the map has the verdict FAILURE.
C3_UnreachedPairsReported ==
    FinalBurstOver =>
        \A src \in Clients : \A dst \in Clients :
            <<src, dst>> \notin Reached =>
                /\ <<src, dst>> \in DOMAIN routes
                /\ routes[<<src, dst>>].route = << >>
                /\ ~routes[<<src, dst>>].is_good
                /\ pc["main"] = "done" => report = "FAILURE"

\* C4: once last_send has cleared `sending` on a client, send_traceroutes is
\* called on that client exactly once, by last_send itself, whatever the
\* client's own loop was doing.
C4_OneMoreSweep ==
    \A c \in Clients : lastSent[c] => sweeps[c] = 1

\* ------------------------------------------------------- C16: the verdict
\* C16: the verdict get_route_string has just computed (the lock is still
\* held, so the map is the one it read) is SUCCESS exactly when the map is
\* non-empty and every entry is correct, and FAILURE otherwise.
C16_Verdict ==
    \A t \in Threads :
        pc[t] = "gs_release" =>
            /\ report \in {"SUCCESS", "FAILURE"}
            /\ report = "SUCCESS" <=>
                   (DOMAIN routes # {} /\ \A k \in DOMAIN routes : routes[k].is_good)

\* C16 witness: a report with the verdict SUCCESS over a map with both pairs.
C16_Witness ==
    /\ pc["main"] = "gs_release"
    /\ report = "SUCCESS"
    /\ DOMAIN routes = Keys

\* ------------------------------------------------------- C20: the sweeps
\* C20: a traceroute sweep, periodic or made by last_send, with or without a
\* link attached, completes without error: no thread that has entered
\* send_traceroutes is ended by an exception.
C20_SweepCompletes ==
    \A t \in Clients \cup {"main"} :
        sw[t].client # "" => pc[t] # "raised"

\* --------------------------------------------- C13, C14: the routes reported
\* a route from X to Y: it starts at X, ends at Y, and only routers lie between
WellFormed(src, dst, route) ==
    /\ Len(route) >= 2
    /\ route[1] = src
    /\ route[Len(route)] = dst
    /\ \A i \in 2..(Len(route) - 1) : route[i] \in Routers

\* C13: every route stored for a pair (X, Y) of clients is empty or a route
\* from X to Y.
C13_StoredRoutesWellFormed ==
    \A k \in DOMAIN routes :
        routes[k].route = << >> \/ WellFormed(k[1], k[2], routes[k].route)

\* C14: the run of the scenario C1 - R - C2 ends with the report made, and
\* made from a map that holds [C1, R, C2] for (C1, C2) and [C2, R, C1] for
\* (C2, C1), both correct.
C14_ScenarioRoutes ==
    pc["main"] \in {"raised", "m_join", "done"} =>
        /\ report # ""
        /\ DOMAIN routes = Keys
        /\ \A k \in Keys : routes[k].route = GoodRoute(k) /\ routes[k].is_good

\* ------------------------------------------------ C18, C19: sends refused
\* the address is an endpoint of link l
IsEnd(l, a) == a \in {link[l].e1, link[l].e2}

\* the copy made for the i-th accepted send lies in a queue of some link
Queued(i) ==
    \E l \in DOMAIN link : InSeq(sendLog[i].p, link[l].q12) \/ InSeq(sendLog[i].p, link[l].q21)

\* C18: no Link.send accepts a packet whose content is set (not None) and is
\* not a string, and once a router's thread has been ended by the violation
\* nothing of the run goes on.
C18_ContentViolationAborts ==
    /\ [](\A i \in DOMAIN sendLog :
              sendLog[i].snap.content = NoContent \/ IsStr(sendLog[i].snap.content))
    /\ [][\A r \in Routers : pc[r] # "raised"]_vars

\* a step that is a call of Router.send on a port that is not installed
SendOnMissingPort ==
    /\ tried' # tried
    /\ tried'.by \in Routers
    /\ tried'.port \notin DOMAIN rlinks[tried'.by]

\* a step that is a call of Link.recv by an address that is no endpoint
RecvByStranger == tried' # tried /\ tried'.by \in Strangers

\* C19: Router.send on a port that is not installed raises nothing in the
\* caller, schedules nothing and changes neither the router's links nor any
\* link; a Link.send from an address that is no endpoint puts nothing in a
\* queue and its delivery thread ends without error; a Link.recv by an
\* address that is no endpoint returns None and changes no queue.
C19_SilentNoOps ==
    /\ [][SendOnMissingPort => UNCHANGED <<ctl, heap, link, helpers, sendLog, rlinks>>]_vars
    /\ [][RecvByStranger => tried'.exc = "recv:None" /\ UNCHANGED link]_vars
    /\ [](\A i \in DOMAIN sendLog :
              ~IsEnd(sendLog[i].l, sendLog[i].src) =>
                  /\ ~Queued(i)
                  /\ [p |-> sendLog[i].p, how |-> "raised"] \notin endLog)

\* C19 witness: the router has just called send on a port that an earlier
\* "remove" took away and goes on running, after a send by a non-endpoint
\* whose delivery thread has ended.
C19_Witness ==
    /\ tried.exc = "KeyError"
    /\ pc["R"] = "r_h_time"
    /\ \E i \in 1..deq["R"] :
           /\ enq["R"][i].op = "remove"
           /\ enq["R"][i].port = tried.port
           /\ \E j \in 1..(i - 1) : enq["R"][j].op = "add" /\ enq["R"][j].port = tried.port
    /\ \E i \in DOMAIN sendLog :
           /\ ~IsEnd(sendLog[i].l, sendLog[i].src)
           /\ [p |-> sendLog[i].p, how |-> "done"] \in endLog

\* ---------------------------------------------------------------- C11, C12
\* router r has applied every command put in its mailbox
Processed(r) ==
    /\ deq[r] = Len(enq[r])
    /\ ~(pc[r] = "r_h_remove" /\ rcur[r].cmd.op = "add")

LastCmd(r) == enq[r][Len(enq[r])]

\* the last event the script applied is a "down" and both routers processed it
DownApplied ==
    /\ pc["changes"] # "hc_second"
    /\ \A r \in ScriptRouters : LastCmd(r).op = "remove" /\ Processed(r)

\* the last two events the script applied are a "down" and then an "up", and
\* both routers processed them
DownUpApplied ==
    /\ pc["changes"] # "hc_second"
    /\ \A r \in ScriptRouters :
          /\ Len(enq[r]) >= 3
          /\ enq[r][Len(enq[r]) - 1].op = "remove"
          /\ LastCmd(r).op = "add"
          /\ Processed(r)

\* C12: once a scripted "down" is applied and both routers processed their
\* "remove", no port of either router holds the Link the table stores for the
\* adjacency, and the table still has the entry; this lasts until the script
\* applies a later "up", whatever events (an "up" on other ports included)
\* came before.
C12_DownUnreferenced ==
    DownApplied =>
        /\ Adj \in DOMAIN links
        /\ \A r \in ScriptRouters : \A port \in DOMAIN rlinks[r] :
               rlinks[r][port] # links[Adj].link

\* an "up" on other ports than the initial ones, then a "down", both applied
C12_Witness ==
    /\ DownApplied
    /\ links[Adj].link = 2
    /\ links[Adj].p1 # links[Adj].p2
    /\ \A r \in ScriptRouters : Len(enq[r]) = 3

\* C11: down-then-up produces a fresh link. Once a "down" and then an "up" are
\* applied and both routers drained their mailboxes, each router's port for the
\* adjacency holds the Link the "up" constructed (one object for both, not the
\* original one), every packet then sent between the two is sent on that Link,
\* and its delivery ends with the packet queued on it or handed to the peer.
C11_FreshLinkCarries ==
    DownUpApplied =>
        /\ links[Adj].link # 1
        /\ \A r \in ScriptRouters :
               /\ PortOf(links[Adj], r) \in DOMAIN rlinks[r]
               /\ rlinks[r][PortOf(links[Adj], r)] = links[Adj].link
        /\ \A i \in DOMAIN sendLog :
               /\ sendLog[i].l = links[Adj].link
               /\ DeliveryOver(sendLog[i].p) =>
                      InSeq(sendLog[i].p,
                            Delivered(sendLog[i].l, Peer(sendLog[i].l, sendLog[i].src)))

\* the part of C11 that is about the installed link and the link a send uses
C11_FreshLinkInstalled ==
    DownUpApplied =>
        /\ links[Adj].link # 1
        /\ \A r \in ScriptRouters :
               /\ PortOf(links[Adj], r) \in DOMAIN rlinks[r]
               /\ rlinks[r][PortOf(links[Adj], r)] = links[Adj].link
        /\ \A i \in DOMAIN sendLog : sendLog[i].l = links[Adj].link

\* ---------------------------------------------------------------------- C15
\* the steps of the thread of router or client t
ThreadStep(t) ==
    \/ CallUpdateFn(t)
    \/ UpdateRouteAcquire(t)
    \/ UpdateRouteStamp(t)
    \/ UpdateRouteTry(t)
    \/ UpdateRouteRelease(t)
    \/ LoopEnds(t)

\* the steps of the main thread, the arrival of the signal left out
MainStep ==
    \/ CallRoutesOp
    \/ GetRouteStringAcquire("main")
    \/ GetRouteStringBuild("main")
    \/ GetRouteStringRelease("main")
    \/ GetRoutePickleAcquire("main")
    \/ GetRoutePickleDumps("main")
    \/ GetRoutePickleRelease("main")
    \/ ResetRoutesAcquire("main")
    \/ ResetRoutesAssign("main")
    \/ ResetRoutesRelease("main")
    \/ JoinAllChanges
    \/ JoinAllStop
    \/ JoinAllWait
    \/ HandleInterruptQuit

\* Scheduling: every thread that can run does run, and a thread waiting for
\* routes_lock gets it if the lock is free again and again.
FairRoutes ==
    /\ SpecRoutes
    /\ WF_vars(MainStep)
    /\ \A t \in Routers \cup Clients :
          WF_vars(ThreadStep(t)) /\ SF_vars(UpdateRouteAcquire(t))

InterruptDeadlock ==
    /\ interrupted
    /\ pc["main"] = "join_wait"
    /\ routes_lock = "main"
    /\ pc[ThreadOrder[joinIdx]] = "ur_acquire"

\* ---------------------------------------------------------------------- C17
\* a link or a change event names an address that is neither a router nor a
\* client
UnknownAddress(c) ==
    \E a \in Elems(c.link) \cup Elems(c.change) :
        a \notin Elems(c.routers) \cup Elems(c.clients)

\* an address is listed twice among the routers or among the clients
DuplicateAddress(c) ==
    \/ \E i, j \in DOMAIN c.routers : i # j /\ c.routers[i] = c.routers[j]
    \/ \E i, j \in DOMAIN c.clients : i # j /\ c.clients[i] = c.clients[j]

\* C17: a configuration with an unknown or a duplicated address ends in an
\* error at construction: the Network is not constructed and no router, client
\* or change-script thread is started.
C17_BadConfigRejected ==
    (UnknownAddress(conf) \/ DuplicateAddress(conf)) =>
        /\ conf.stage # "constructed"
        /\ \A t \in Addrs \cup {"changes"} : pc[t] = "new"

\* ---------------------------------------------------------------------- C21
\* the events applied so far, in the order of their application
Applied == [i \in DOMAIN hc.done |-> hc.done[i].event]

\* C21: the change script. The events are applied in non-decreasing order of
\* scheduled time whatever their order in the configuration (the script is a
\* set here: the queue forgets the order of the list), none before start_time
\* + time * latency_multiplier, none twice, and when the thread ends every
\* event of the script has been applied.
C21_ScriptOrder ==
    /\ \A i, j \in DOMAIN hc.done :
          i < j => /\ hc.done[i].event.time <= hc.done[j].event.time
                   /\ hc.done[i].event # hc.done[j].event
    /\ \A i \in DOMAIN hc.done :
          /\ hc.done[i].at >= hc.start_time + hc.done[i].event.time * LatencyMultiplier
          /\ hc.done[i].event \in conf.script
    /\ pc["changes"] # "raised"
    /\ pc["changes"] = "dead" => Elems(Applied) = conf.script

\* a script of two events of different times has been applied to the end
C21_Witness ==
    /\ pc["changes"] = "dead"
    /\ Len(hc.done) = 2
    /\ hc.done[1].event.time < hc.done[2].event.time
    /\ hc.done[1].event.change = "up"

\* ---------------------------------------------------------------------- C23
\* C23: no viewer attached. The delivery thread of every packet an endpoint
\* sent ends without an error, with the packet put in the queue toward the
\* peer (or already handed to it).
C23_NoViewerNoError ==
    \A i \in DOMAIN sendLog :
        (IsEnd(sendLog[i].l, sendLog[i].src) /\ DeliveryOver(sendLog[i].p)) =>
            /\ [p |-> sendLog[i].p, how |-> "raised"] \notin endLog
            /\ InSeq(sendLog[i].p,
                     Delivered(sendLog[i].l, Peer(sendLog[i].l, sendLog[i].src)))

\* ---------------------------------------------------------------------- C22
\* the loop of a router whose keep_running is false starts no new iteration
C22_NoNewIteration ==
    [][\A r \in Routers : (pc[r] = "r_loop" /\ ~keep_running[r]) => pc'[r] # "r_drain"]_vars

\* C22: shutdown. Once the main thread is through the end of the run
\* (final_routes, the report, join_all) every router, every client and the
\* change-script thread has ended.
C22_ShutdownStops ==
    pc["main"] \in {"raised", "done"} =>
        \A t \in Routers \cup Clients \cup {"changes"} : pc[t] \in Ended

\* ---------------------------------------------------------------------- C24
\* a step in which client c takes a packet of the given kind from its link
Receives(c, kind) ==
    /\ pc[c] = "c_recv"
    /\ Len(recvLog') = Len(recvLog) + 1
    /\ recvLog'[Len(recvLog')].dst = c
    /\ pkt[recvLog'[Len(recvLog')].p].kind = kind

\* C24: a ROUTING packet a client receives is dropped: the loop goes on to
\* handle_time with no call of update_route, nothing sent, and the client's
\* link, sending flag and last_time as they were; a call of update_route out
\* of handle_packet is for a TRACEROUTE packet.
C24_RoutingDropped ==
    /\ [][\A c \in Clients : Receives(c, "ROUTING") =>
             /\ pc'[c] = "c_time"
             /\ UNCHANGED <<stack, ur, rts, heap, helpers, sendLog, endLog, link_changes,
                            clink, sending, last_time, sw, sweeps>>]_vars
    /\ [][\A c \in Clients : (pc[c] = "c_recv" /\ pc'[c] = "ur_acquire") =>
             Receives(c, "TRACEROUTE")]_vars

\* a client has taken a ROUTING packet from its link and goes on
C24_Witness ==
    \E i \in DOMAIN recvLog :
        /\ recvLog[i].dst \in Clients
        /\ pkt[recvLog[i].p].kind = "ROUTING"
        /\ pc[recvLog[i].dst] = "c_time"

\* ---------------------------------------------------------------------- C25
\* the queue of link l that leads to address a
Toward(l, a) == IF a = link[l].e2 THEN link[l].q12 ELSE link[l].q21

\* a step in which the loop of router r calls handle_packet
CallsHandlePacket(r) == pc[r] = "r_poll" /\ pc'[r] = "r_h_packet"

\* C25: when the loop of a router calls handle_packet(port, packet), the port
\* is installed and the packet was the first of the queue toward the router of
\* the Link installed on that port; no packet is taken from a Link that the
\* router does not hold on the port polled.
C25_HandedFromInstalled ==
    /\ [][\A r \in ScriptRouters : CallsHandlePacket(r) =>
             /\ rcur'[r].port \in DOMAIN rlinks[r]
             /\ rlinks' = rlinks
             /\ Toward(rlinks[r][rcur'[r].port], r) # << >>
             /\ rcur'[r].pkt = Head(Toward(rlinks[r][rcur'[r].port], r))
             /\ recvLog'[Len(recvLog')] =
                    [p |-> rcur'[r].pkt, dst |-> r, t |-> now, l |-> rlinks[r][rcur'[r].port]]]_vars
    /\ [][\A l \in DOMAIN link : \A r \in ScriptRouters :
             (Toward(l, r) # << >> /\ Toward(l, r)' # Toward(l, r)
                  /\ \A port \in DOMAIN rlinks[r] : rlinks[r][port] # l)
             => Toward(l, r)' = Append(Toward(l, r), Len(pkt) + 1)]_vars

\* a packet lies on the Link a router no longer holds while the router is
\* handed a packet from the Link it holds now
C25_Witness ==
    \E r \in ScriptRouters :
        /\ pc[r] = "r_h_packet"
        /\ rcur[r].port \in DOMAIN rlinks[r]
        /\ rlinks[r][rcur[r].port] # 1
        /\ Toward(1, r) # << >>

\* ---------------------------------------------------------------------- C26
\* router r holds Link l on one of its ports
Installed(l, r) == \E port \in DOMAIN rlinks[r] : rlinks[r][port] = l

\* every command put in the mailbox of r so far is applied
AllApplied(r) == link_changes[r] = << >> /\ Processed(r)

\* no packet waits in the queue toward r of a Link that r holds
NoneWaiting(r) ==
    \A l \in DOMAIN link : Installed(l, r) => Toward(l, r) = << >>

\* C26: while a router runs, every command put in its mailbox is eventually
\* applied and every packet queued toward it on a Link that stays installed is
\* eventually handed to handle_packet: again and again the router is through
\* with all the commands it was given and with all the packets that wait on
\* its installed Links.
C26_EventuallyServed ==
    /\ \A r \in ScriptRouters : []<>(pc[r] \in Ended \/ AllApplied(r))
    /\ []<>(pc[Adj[1]] \in Ended \/ NoneWaiting(Adj[1]))

\* three commands were applied by a router that was also handed a packet from
\* the Link of the last "up"
C26_Witness ==
    /\ deq[Adj[1]] = 3 /\ Processed(Adj[1])
    /\ \E i \in DOMAIN recvLog : recvLog[i].l = 2 /\ recvLog[i].dst = Adj[1]

\* ---------------------------------------------------------------------- C27
\* steps in which router r calls handle_remove_link, handle_new_link
CallsRemove(r) == pc[r] # "r_h_remove" /\ pc'[r] = "r_h_remove"
CallsNew(r) == pc[r] # "r_h_new" /\ pc'[r] = "r_h_new"

\* the port the handler is called for
CalledPort(r) == rcur'[r].cmd.port

\* the port map of r changes with a handler call only, and handle_new_link is
\* called for a port that was free and now holds a Link
NewOnFreePort(r) ==
    /\ rlinks'[r] # rlinks[r] => (CallsRemove(r) \/ CallsNew(r))
    /\ CallsNew(r) => /\ CalledPort(r) \notin DOMAIN rlinks[r]
                      /\ CalledPort(r) \in DOMAIN rlinks'[r]

C28_AllPairsReported ==
    pc["main"] \in {"raised", "m_join", "done"} =>
        /\ report # ""
        /\ DOMAIN routes = {<<src, dst>> : src \in Clients, dst \in Clients}

====
